---- MODULE Spec2Model ----
(***************************************************************************)
(* State-machine model of the Polymesh asset pallet                        *)
(* (pallets/runtime/src/asset.rs) and of the authorization / link registry *)
(* of the identity pallet (runtime/identity/src/lib.rs).                   *)
(*                                                                         *)
(* Every storage item of decl_storage! is a variable holding a map with a  *)
(* dynamic domain: a key is in the DOMAIN exactly when `exists` is true    *)
(* for it, and a read of an absent key yields the type's default value.    *)
(* Every dispatchable is one action; the handlers are written as           *)
(* operators from a store (a record of all storage items) to a result      *)
(* [res, st], statement by statement, so that a write that precedes a      *)
(* failing check stays written exactly as in the code.                     *)
(***************************************************************************)
EXTENDS Integers, Sequences, FiniteSets, TLC

VARIABLES
    Tickers,                \* Ticker => TickerRegistration
    Tokens,                 \* Ticker => SecurityToken
    BalanceOf,              \* (Ticker, IdentityId) => Balance
    Allowance,              \* (Ticker, owner, spender) => Balance
    TotalCheckpoints,       \* Ticker => u64
    CheckpointTotalSupply,  \* (Ticker, checkpoint id) => Balance
    CheckpointBalance,      \* (Ticker, IdentityId, checkpoint id) => Balance
    UserCheckpoints,        \* (Ticker, IdentityId) => Vec<u64>
    CustodianAllowance,     \* (Ticker, holder, custodian) => Balance
    TotalCustodyAllowance,  \* (Ticker, holder) => Balance
    AuthenticationNonce,    \* (Ticker, holder, nonce) => bool
    IssuedInFundingRound,   \* (Ticker, round) => Balance
    Frozen,                 \* Ticker => bool
    MultiPurposeNonce,      \* u64, source of authorization and link ids
    Authorizations,         \* (Signer, id) => Authorization
    LastAuthorization,      \* Signer => id
    Links,                  \* (Signer, id) => Link
    LastLink,               \* Signer => id
    now,                    \* pallet_timestamp's current time
    last,                   \* the last dispatched call and its result
    hist                    \* history kept for the properties (see Observe)

vars == <<Tickers, Tokens, BalanceOf, Allowance, TotalCheckpoints,
          CheckpointTotalSupply, CheckpointBalance, UserCheckpoints,
          CustodianAllowance, TotalCustodyAllowance, AuthenticationNonce,
          IssuedInFundingRound, Frozen, MultiPurposeNonce, Authorizations,
          LastAuthorization, Links, LastLink, now, last, hist>>

----------------------------------------------------------------------------
(* Bounds of the model and scaled program constants.                       *)

\* Largest value of the Balance type (2^128 - 1 in the runtime) in the model.
MaxBalance == 3
\* The granularity of an indivisible token (10^6 in the runtime), scaled.
ONE_UNIT == 2
\* The largest total supply (10^12 * ONE_UNIT in the runtime), scaled.
MAX_SUPPLY == 3
\* Largest value of the id counter the model lets the registry reach.
MaxNonce == 6
\* Largest timestamp the model lets the clock reach.
MaxTime == 2
\* Largest number of checkpoints the model creates per ticker.
MaxCheckpoints == 2

ERC1400_TRANSFER_FAILURE == 80
ERC1400_TRANSFER_SUCCESS == 81
ERC1400_INSUFFICIENT_BALANCE == 82
ERC1400_INVALID_RECEIVER == 87
APP_FUNDS_LIMIT_REACHED == 163

\* Option<T> of a number: None, or the number itself.
None == -1
\* The default IdentityId (all zero bytes); no key is a signing key of it.
NoDid == 0
\* The identities with a DidRecord.
DidRecords == {1, 2, 3}

----------------------------------------------------------------------------
(* Storage maps.                                                           *)

EmptyMap == << >>
Exists(m, k) == k \in DOMAIN m
Get(m, k, d) == IF k \in DOMAIN m THEN m[k] ELSE d
Insert(m, k, v) == [x \in DOMAIN m \cup {k} |-> IF x = k THEN v ELSE m[x]]
Remove(m, k) == [x \in DOMAIN m \ {k} |-> m[x]]

\* checked_add / checked_sub of the Balance type: None on overflow.
checked_add(a, b) == IF a + b > MaxBalance THEN None ELSE a + b
checked_sub(a, b) == IF a < b THEN None ELSE a - b

Store == [Tickers |-> Tickers, Tokens |-> Tokens, BalanceOf |-> BalanceOf,
          Allowance |-> Allowance, TotalCheckpoints |-> TotalCheckpoints,
          CheckpointTotalSupply |-> CheckpointTotalSupply,
          CheckpointBalance |-> CheckpointBalance,
          UserCheckpoints |-> UserCheckpoints,
          CustodianAllowance |-> CustodianAllowance,
          TotalCustodyAllowance |-> TotalCustodyAllowance,
          AuthenticationNonce |-> AuthenticationNonce,
          IssuedInFundingRound |-> IssuedInFundingRound, Frozen |-> Frozen,
          MultiPurposeNonce |-> MultiPurposeNonce,
          Authorizations |-> Authorizations,
          LastAuthorization |-> LastAuthorization,
          Links |-> Links, LastLink |-> LastLink]

Ok(st) == [res |-> "Ok", st |-> st]
Err(st, e) == [res |-> e, st |-> st]

----------------------------------------------------------------------------
(* Identity pallet: authorizations and links.                              *)

DefaultAuthorization ==
    [authorization_data |-> [kind |-> "Custom", ticker |-> << >>],
     authorized_by |-> NoDid, expiry |-> None,
     next_authorization |-> 0, previous_authorization |-> 0]

DefaultLink ==
    [link_data |-> [kind |-> "NoData", ticker |-> << >>], expiry |-> None,
     next_link |-> 0, previous_link |-> 0]

authorizations(st, key) == Get(st.Authorizations, key, DefaultAuthorization)
last_authorization(st, target) == Get(st.LastAuthorization, target, 0)
links(st, key) == Get(st.Links, key, DefaultLink)
last_link(st, target) == Get(st.LastLink, target, 0)

\* is_signer_authorized, for a signer that is the master key of `signer_did`.
is_signer_authorized(did, signer_did) == did # NoDid /\ did = signer_did

\* add_auth that leaves the id counter as it was.
add_auth_same_nonce(st, from, target, authorization_data, expiry) ==
    LET new_nonce == st.MultiPurposeNonce + 1
        last_auth == last_authorization(st, target)
        a1 == IF last_auth > 0
              THEN Insert(st.Authorizations, <<target, last_auth>>,
                          [authorizations(st, <<target, last_auth>>)
                             EXCEPT !.next_authorization = new_nonce])
              ELSE st.Authorizations
        auth == [authorization_data |-> authorization_data,
                 authorized_by |-> from, expiry |-> expiry,
                 next_authorization |-> 0,
                 previous_authorization |-> last_auth]
    IN  [st EXCEPT !.LastAuthorization = Insert(@, target, new_nonce),
                   !.Authorizations = Insert(a1, <<target, new_nonce>>, auth)]

add_auth(st, from, target, authorization_data, expiry) ==
    LET new_nonce == st.MultiPurposeNonce + 1
        last_auth == last_authorization(st, target)
        a1 == IF last_auth > 0
              THEN Insert(st.Authorizations, <<target, last_auth>>,
                          [authorizations(st, <<target, last_auth>>)
                             EXCEPT !.next_authorization = new_nonce])
              ELSE st.Authorizations
        auth == [authorization_data |-> authorization_data,
                 authorized_by |-> from, expiry |-> expiry,
                 next_authorization |-> 0,
                 previous_authorization |-> last_auth]
    IN  [st EXCEPT !.MultiPurposeNonce = new_nonce,
                   !.LastAuthorization = Insert(@, target, new_nonce),
                   !.Authorizations = Insert(a1, <<target, new_nonce>>, auth)]

remove_auth(st, target, auth_id, next_auth, previous_auth) ==
    LET a0 == st.Authorizations
        a1 == IF next_auth # 0
              THEN Insert(a0, <<target, next_auth>>,
                          [Get(a0, <<target, next_auth>>, DefaultAuthorization)
                             EXCEPT !.previous_authorization = previous_auth])
              ELSE a0
        l1 == IF next_auth # 0
              THEN st.LastAuthorization
              ELSE Insert(st.LastAuthorization, target, previous_auth)
        a2 == IF previous_auth # 0
              THEN Insert(a1, <<target, previous_auth>>,
                          [Get(a1, <<target, previous_auth>>, DefaultAuthorization)
                             EXCEPT !.next_authorization = next_auth])
              ELSE a1
    IN  [st EXCEPT !.LastAuthorization = l1,
                   !.Authorizations = Remove(a2, <<target, auth_id>>)]

\* consume_auth that removes the record before it looks at the expiry.
consume_auth_removing_expired(st, from, target, auth_id) ==
    IF ~Exists(st.Authorizations, <<target, auth_id>>)
    THEN Err(st, "AuthorizationError::Invalid")
    ELSE LET auth == authorizations(st, <<target, auth_id>>)
             removed == remove_auth(st, target, auth_id, auth.next_authorization,
                                    auth.previous_authorization)
         IN
         IF auth.authorized_by # from
         THEN Err(st, "AuthorizationError::Unauthorized")
         ELSE IF auth.expiry # None /\ auth.expiry <= now
         THEN Err(removed, "AuthorizationError::Expired")
         ELSE Ok(removed)

\* consume_auth that does not ask who gave the authorization.
consume_auth_from_anyone(st, from, target, auth_id) ==
    IF ~Exists(st.Authorizations, <<target, auth_id>>)
    THEN Err(st, "AuthorizationError::Invalid")
    ELSE LET auth == authorizations(st, <<target, auth_id>>) IN
         IF auth.expiry # None /\ auth.expiry <= now
         THEN Err(st, "AuthorizationError::Expired")
         ELSE Ok(remove_auth(st, target, auth_id, auth.next_authorization,
                             auth.previous_authorization))

consume_auth(st, from, target, auth_id) ==
    IF ~Exists(st.Authorizations, <<target, auth_id>>)
    THEN Err(st, "AuthorizationError::Invalid")
    ELSE LET auth == authorizations(st, <<target, auth_id>>) IN
         IF auth.authorized_by # from
         THEN Err(st, "AuthorizationError::Unauthorized")
         ELSE IF auth.expiry # None /\ auth.expiry <= now
         THEN Err(st, "AuthorizationError::Expired")
         ELSE Ok(remove_auth(st, target, auth_id, auth.next_authorization,
                             auth.previous_authorization))

\* add_link: the new store; the id of the new link is its MultiPurposeNonce.
add_link(st, target, link_data, expiry) ==
    LET new_nonce == st.MultiPurposeNonce + 1
        last_l == last_link(st, target)
        k1 == IF last_l > 0
              THEN Insert(st.Links, <<target, last_l>>,
                          [links(st, <<target, last_l>>)
                             EXCEPT !.next_link = new_nonce])
              ELSE st.Links
        link == [link_data |-> link_data, expiry |-> expiry,
                 next_link |-> 0, previous_link |-> last_l]
    IN  [st EXCEPT !.MultiPurposeNonce = new_nonce,
                   !.LastLink = Insert(@, target, new_nonce),
                   !.Links = Insert(k1, <<target, new_nonce>>, link)]

remove_link(st, target, link_id) ==
    IF Exists(st.Links, <<target, link_id>>)
    THEN LET link == links(st, <<target, link_id>>)
             k0 == st.Links
             k1 == IF link.next_link # 0
                   THEN Insert(k0, <<target, link.next_link>>,
                               [Get(k0, <<target, link.next_link>>, DefaultLink)
                                  EXCEPT !.previous_link = link.previous_link])
                   ELSE k0
             l1 == IF link.next_link # 0
                   THEN st.LastLink
                   ELSE Insert(st.LastLink, target, link.previous_link)
             k2 == IF link.previous_link # 0
                   THEN Insert(k1, <<target, link.previous_link>>,
                               [Get(k1, <<target, link.previous_link>>, DefaultLink)
                                  EXCEPT !.next_link = link.next_link])
                   ELSE k1
         IN  [st EXCEPT !.LastLink = l1,
                        !.Links = Remove(k2, <<target, link_id>>)]
    ELSE st

----------------------------------------------------------------------------
(* Tickers (primitives/src/ticker.rs).  A ticker is the sequence of its    *)
(* bytes up to the last non-zero one, of at most TICKER_LEN bytes.         *)

TICKER_LEN == 12
to_ascii_uppercase(b) == IF b >= 97 /\ b <= 122 THEN b - 32 ELSE b
\* Ticker::canonize(mut self): the method takes the ticker by value, and a
\* Ticker is Copy, so it uppercases its own copy (self), which is dropped when
\* it returns; the ticker of the caller is as it was.  Every dispatchable
\* calls it on its ticker argument in this way.
canonize(t) ==
    [self |-> [i \in 1..Len(t) |-> to_ascii_uppercase(t[i])], caller |-> t]
\* Ticker::len: the length of the minimal prefix after which only zeros appear.
ticker_len(t) == Len(t)
\* TickerConfig of the test runtime's genesis.
max_ticker_length == 12
\* registration_length (Some(10000) in the test genesis), scaled.
registration_length == 1

----------------------------------------------------------------------------
(* Asset pallet: readers.                                                  *)

DefaultTickerRegistration == [owner |-> NoDid, expiry |-> None, link_id |-> 0]
DefaultSecurityToken ==
    [total_supply |-> 0, owner_did |-> NoDid, divisible |-> FALSE, link_id |-> 0]

ticker_registration(st, t) == Get(st.Tickers, t, DefaultTickerRegistration)
token_details(st, t) == Get(st.Tokens, t, DefaultSecurityToken)
balance_of(st, k) == Get(st.BalanceOf, k, 0)
allowance(st, k) == Get(st.Allowance, k, 0)
total_checkpoints_of(st, t) == Get(st.TotalCheckpoints, t, 0)
total_supply_at(st, k) == Get(st.CheckpointTotalSupply, k, 0)
balance_at_checkpoint(st, k) == Get(st.CheckpointBalance, k, 0)
user_checkpoints(st, k) == Get(st.UserCheckpoints, k, << >>)
custodian_allowance(st, k) == Get(st.CustodianAllowance, k, 0)
total_custody_allowance(st, k) == Get(st.TotalCustodyAllowance, k, 0)
authentication_nonce(st, k) == Get(st.AuthenticationNonce, k, FALSE)
\* The funding round of every ticker is the default (empty) name.
funding_round(st, t) == << >>
issued_in_funding_round(st, k) == Get(st.IssuedInFundingRound, k, 0)
frozen(st, t) == Get(st.Frozen, t, FALSE)

is_owner(st, t, did) == token_details(st, t).owner_did = did

\* is_ticker_available_or_registered_to for which a registration has
\* expired as soon as the time is its expiry.
is_ticker_available_from_expiry(st, t, did) ==
    IF Exists(st.Tickers, t)
    THEN LET ticker_reg == ticker_registration(st, t) IN
         IF ticker_reg.expiry # None /\ now >= ticker_reg.expiry
         THEN "Available"
         ELSE IF ticker_reg.owner = did
         THEN "RegisteredByDid"
         ELSE "RegisteredByOther"
    ELSE "Available"

\* is_ticker_available_or_registered_to for which no registration expires.
is_ticker_available_never_expired(st, t, did) ==
    IF Exists(st.Tickers, t)
    THEN IF ticker_registration(st, t).owner = did
         THEN "RegisteredByDid"
         ELSE "RegisteredByOther"
    ELSE "Available"

is_ticker_available_or_registered_to(st, t, did) ==
    IF Exists(st.Tickers, t)
    THEN LET ticker_reg == ticker_registration(st, t) IN
         IF ticker_reg.expiry # None /\ now > ticker_reg.expiry
         THEN "Available"
         ELSE IF ticker_reg.owner = did
         THEN "RegisteredByDid"
         ELSE "RegisteredByOther"
    ELSE "Available"

\* check_granularity that lets every value pass.
check_granularity_of_any(st, t, value) == TRUE

\* check_granularity asking for whole units of divisible tokens only.
check_granularity_of_divisible(st, t, value) ==
    LET token == token_details(st, t) IN
    ~token.divisible \/ value % ONE_UNIT = 0

check_granularity(st, t, value) ==
    token_details(st, t).divisible \/ value % ONE_UNIT = 0

----------------------------------------------------------------------------
(* Transfer-authorization pipeline.  The general verifier is an external   *)
(* collaborator: its status code is the input env.gtm.  The percentage     *)
(* verifier is percentage_tm::verify_restriction, whose own storage        *)
(* (the maximum percentage, the exemption list) is the input               *)
(* env.max_percentage / env.is_exempted.                                   *)

\* new_balance * 10^18 / total_supply > max_percentage * 10^16, in integers
\* (equal to the comparison below for every total_supply up to 10^16).
\* The verifier with the missing receiver let through.
percentage_verify_restriction_without_receiver(st, t, to_did_opt, value, env) ==
    IF to_did_opt # None /\ env.max_percentage # 0 /\ ~env.is_exempted
    THEN LET new_balance == checked_add(balance_of(st, <<t, to_did_opt>>), value)
             total_supply == token_details(st, t).total_supply
         IN  IF new_balance = None
             THEN [err |-> "Balance of to will get overflow", code |-> 0]
             ELSE IF total_supply = 0
             THEN [err |-> "unsafe division", code |-> 0]
             ELSE IF new_balance * 100 > env.max_percentage * total_supply
             THEN [err |-> "", code |-> APP_FUNDS_LIMIT_REACHED]
             ELSE [err |-> "", code |-> ERC1400_TRANSFER_SUCCESS]
    ELSE [err |-> "", code |-> ERC1400_TRANSFER_SUCCESS]

percentage_verify_restriction(st, t, to_did_opt, value, env) ==
    IF to_did_opt # None
    THEN IF env.max_percentage # 0 /\ ~env.is_exempted
         THEN LET new_balance == checked_add(balance_of(st, <<t, to_did_opt>>), value)
                  total_supply == token_details(st, t).total_supply
              IN  IF new_balance = None
                  THEN [err |-> "Balance of to will get overflow", code |-> 0]
                  ELSE IF total_supply = 0
                  THEN [err |-> "unsafe division", code |-> 0]
                  ELSE IF new_balance * 100 > env.max_percentage * total_supply
                  THEN [err |-> "", code |-> APP_FUNDS_LIMIT_REACHED]
                  ELSE [err |-> "", code |-> ERC1400_TRANSFER_SUCCESS]
         ELSE [err |-> "", code |-> ERC1400_TRANSFER_SUCCESS]
    ELSE [err |-> "", code |-> ERC1400_INVALID_RECEIVER]

\* _is_valid_transfer asking the percentage verifier first.
_is_valid_transfer_percentage_first(st, t, from_did_opt, to_did_opt, value, env) ==
    LET percentage == percentage_verify_restriction(st, t, to_did_opt, value, env) IN
    IF frozen(st, t)
    THEN [err |-> "asset is frozen", code |-> 0]
    ELSE IF percentage.err # "" \/ percentage.code # ERC1400_TRANSFER_SUCCESS
    THEN percentage
    ELSE [err |-> "", code |-> env.gtm]

_is_valid_transfer(st, t, from_did_opt, to_did_opt, value, env) ==
    IF frozen(st, t)
    THEN [err |-> "asset is frozen", code |-> 0]
    ELSE IF env.gtm # ERC1400_TRANSFER_SUCCESS
    THEN [err |-> "", code |-> env.gtm]
    ELSE percentage_verify_restriction(st, t, to_did_opt, value, env)

\* ensure!(_is_valid_transfer(..)? == ERC1400_TRANSFER_SUCCESS, ..): "" when
\* the check passes, the error otherwise.
transfer_check(st, t, from_did_opt, to_did_opt, value, env) ==
    LET r == _is_valid_transfer(st, t, from_did_opt, to_did_opt, value, env) IN
    IF r.err # "" THEN r.err
    ELSE IF r.code # ERC1400_TRANSFER_SUCCESS THEN "Transfer restrictions failed"
    ELSE ""

----------------------------------------------------------------------------
(* Checkpoints.                                                            *)

\* _create_checkpoint recording the total supply under the first id always.
_create_checkpoint_under_first_id(st, t) ==
    Ok([st EXCEPT !.TotalCheckpoints = Insert(@, t, total_checkpoints_of(st, t) + 1),
                  !.CheckpointTotalSupply =
                      Insert(@, <<t, 1>>, token_details(st, t).total_supply)])

\* _create_checkpoint numbering the checkpoints of all tickers from one
\* counter.
_create_checkpoint_shared(st, t) ==
    LET counts == {st.TotalCheckpoints[u] : u \in DOMAIN st.TotalCheckpoints} \cup {0}
        checkpoint_count == (CHOOSE n \in counts : \A k \in counts : k <= n) + 1
    IN  Ok([st EXCEPT !.TotalCheckpoints = Insert(@, t, checkpoint_count),
                      !.CheckpointTotalSupply =
                          Insert(@, <<t, checkpoint_count>>,
                                 token_details(st, t).total_supply)])

_create_checkpoint(st, t) ==
    IF Exists(st.TotalCheckpoints, t)
    THEN LET checkpoint_count == total_checkpoints_of(st, t) + 1 IN
         Ok([st EXCEPT !.TotalCheckpoints = Insert(@, t, checkpoint_count),
                       !.CheckpointTotalSupply =
                           Insert(@, <<t, checkpoint_count>>,
                                  token_details(st, t).total_supply)])
    ELSE Ok([st EXCEPT !.TotalCheckpoints = Insert(@, t, 1),
                       !.CheckpointTotalSupply =
                           Insert(@, <<t, 1>>, token_details(st, t).total_supply)])

\* _update_checkpoint recording the balance at every mutation, not only at
\* the first one after a checkpoint.
_update_checkpoint_every(st, t, user_did, user_balance) ==
    IF Exists(st.TotalCheckpoints, t)
    THEN LET checkpoint_count == total_checkpoints_of(st, t)
             key == <<t, user_did, checkpoint_count>>
         IN  [st EXCEPT !.CheckpointBalance = Insert(@, key, user_balance),
                        !.UserCheckpoints =
                            IF Exists(st.CheckpointBalance, key)
                            THEN @
                            ELSE Insert(@, <<t, user_did>>,
                                        Append(user_checkpoints(st, <<t, user_did>>),
                                               checkpoint_count))]
    ELSE st

\* _update_checkpoint recording the balance without listing the checkpoint.
_update_checkpoint_unlisted(st, t, user_did, user_balance) ==
    IF Exists(st.TotalCheckpoints, t)
    THEN LET checkpoint_count == total_checkpoints_of(st, t)
             key == <<t, user_did, checkpoint_count>>
         IN  IF ~Exists(st.CheckpointBalance, key)
             THEN [st EXCEPT !.CheckpointBalance = Insert(@, key, user_balance)]
             ELSE st
    ELSE st

_update_checkpoint(st, t, user_did, user_balance) ==
    IF Exists(st.TotalCheckpoints, t)
    THEN LET checkpoint_count == total_checkpoints_of(st, t)
             key == <<t, user_did, checkpoint_count>>
         IN  IF ~Exists(st.CheckpointBalance, key)
             THEN [st EXCEPT !.CheckpointBalance = Insert(@, key, user_balance),
                             !.UserCheckpoints =
                                 Insert(@, <<t, user_did>>,
                                        Append(user_checkpoints(st, <<t, user_did>>),
                                               checkpoint_count))]
             ELSE st
    ELSE st

\* Marks a panic (an index out of the array's bounds).
Panic == -2

\* The loop of find_ceiling; arr[i] of the code is arr[i + 1] here.
RECURSIVE find_ceiling_loop(_, _, _, _)
find_ceiling_loop(arr, key, start, end) ==
    LET mid == (start + end) \div 2 IN
    IF mid # 0 /\ end >= start
    THEN IF mid >= Len(arr)
         THEN Panic
         ELSE IF key > arr[mid] /\ key <= arr[mid + 1]
         THEN arr[mid + 1]
         ELSE IF key > arr[mid + 1]
         THEN find_ceiling_loop(arr, key, mid + 1, end)
         ELSE find_ceiling_loop(arr, key, start, mid)
    ELSE IF Len(arr) = 0 THEN Panic ELSE arr[1]

find_ceiling(arr, key) == find_ceiling_loop(arr, key, 0, Len(arr))

\* get_balance_at without the test for checkpoint id 0.
get_balance_at_from_zero(st, t, did, at) ==
    IF ~Exists(st.TotalCheckpoints, t) \/ at > total_checkpoints_of(st, t)
    THEN balance_of(st, <<t, did>>)
    ELSE IF Exists(st.UserCheckpoints, <<t, did>>)
    THEN LET ucp == user_checkpoints(st, <<t, did>>)
             lastcp == IF Len(ucp) = 0 THEN 0 ELSE ucp[Len(ucp)]
         IN  IF at > lastcp
             THEN balance_of(st, <<t, did>>)
             ELSE LET ceiling == find_ceiling(ucp, at) IN
                  IF ceiling = Panic
                  THEN Panic
                  ELSE balance_at_checkpoint(st, <<t, did, ceiling>>)
    ELSE balance_of(st, <<t, did>>)

get_balance_at(st, t, did, at) ==
    IF ~Exists(st.TotalCheckpoints, t) \/ at = 0 \/ at > total_checkpoints_of(st, t)
    THEN balance_of(st, <<t, did>>)
    ELSE IF Exists(st.UserCheckpoints, <<t, did>>)
    THEN LET ucp == user_checkpoints(st, <<t, did>>)
             lastcp == IF Len(ucp) = 0 THEN 0 ELSE ucp[Len(ucp)]
         IN  IF at > lastcp
             THEN balance_of(st, <<t, did>>)
             ELSE LET ceiling == find_ceiling(ucp, at) IN
                  IF ceiling = Panic
                  THEN Panic
                  ELSE balance_at_checkpoint(st, <<t, did, ceiling>>)
    ELSE balance_of(st, <<t, did>>)

----------------------------------------------------------------------------
(* Asset pallet: internal functions.                                       *)

\* _register_ticker that leaves the link of the registration it replaces.
_register_ticker_keeping_link(st, t, to_did, expiry) ==
    LET s2 == add_link(st, to_did, [kind |-> "TickerOwned", ticker |-> t], expiry)
        link == s2.MultiPurposeNonce
    IN  [s2 EXCEPT !.Tickers =
            Insert(@, t, [owner |-> to_did, expiry |-> expiry, link_id |-> link])]

_register_ticker(st, t, to_did, expiry) ==
    LET s1 == IF Exists(st.Tickers, t)
              THEN LET ticker_details == ticker_registration(st, t) IN
                   remove_link(st, ticker_details.owner, ticker_details.link_id)
              ELSE st
        s2 == add_link(s1, to_did, [kind |-> "TickerOwned", ticker |-> t], expiry)
        link == s2.MultiPurposeNonce
    IN  [s2 EXCEPT !.Tickers =
            Insert(@, t, [owner |-> to_did, expiry |-> expiry, link_id |-> link])]

_transfer(st, t, from_did, to_did, value) ==
    IF ~check_granularity(st, t, value)
    THEN Err(st, "Invalid granularity")
    ELSE IF ~Exists(st.BalanceOf, <<t, from_did>>)
    THEN Err(st, "Account does not own this token")
    ELSE LET sender_balance == balance_of(st, <<t, from_did>>) IN
    IF ~(sender_balance >= value)
    THEN Err(st, "Not enough balance.")
    ELSE LET updated_from_balance == checked_sub(sender_balance, value)
             receiver_balance == balance_of(st, <<t, to_did>>)
             updated_to_balance == checked_add(receiver_balance, value)
         IN
    IF updated_from_balance = None \/ updated_to_balance = None
    THEN Err(st, "overflow in calculating balance")
    ELSE LET s1 == _update_checkpoint(st, t, from_did, sender_balance)
             s2 == _update_checkpoint(s1, t, to_did, receiver_balance)
             b1 == Insert(s2.BalanceOf, <<t, from_did>>, updated_from_balance)
             b2 == Insert(b1, <<t, to_did>>, updated_to_balance)
         IN  Ok([s2 EXCEPT !.BalanceOf = b2])

\* _mint raising the total supply without a bound.
_mint_without_supply_limit(st, t, to_did, value, env) ==
    IF ~check_granularity(st, t, value)
    THEN Err(st, "Invalid granularity")
    ELSE LET current_to_balance == balance_of(st, <<t, to_did>>)
             updated_to_balance == checked_add(current_to_balance, value)
             chk == transfer_check(st, t, None, to_did, value, env)
             token == token_details(st, t)
             updated_total_supply == token.total_supply + value
         IN
    IF updated_to_balance = None
    THEN Err(st, "overflow in calculating balance")
    ELSE IF chk # ""
    THEN Err(st, chk)
    ELSE LET s1 == _update_checkpoint(st, t, to_did, current_to_balance)
             s2 == [s1 EXCEPT
                      !.BalanceOf = Insert(@, <<t, to_did>>, updated_to_balance),
                      !.Tokens = Insert(@, t, [token EXCEPT
                                     !.total_supply = updated_total_supply])]
             ticker_round == <<t, funding_round(st, t)>>
             issued_in_this_round ==
                 checked_add(issued_in_funding_round(s2, ticker_round), value)
         IN  IF issued_in_this_round = None
             THEN Err(s2, "current funding round total overflowed")
             ELSE Ok([s2 EXCEPT !.IssuedInFundingRound =
                         Insert(@, ticker_round, issued_in_this_round)])

_mint(st, t, to_did, value, env) ==
    IF ~check_granularity(st, t, value)
    THEN Err(st, "Invalid granularity")
    ELSE LET current_to_balance == balance_of(st, <<t, to_did>>)
             updated_to_balance == checked_add(current_to_balance, value)
             chk == transfer_check(st, t, None, to_did, value, env)
             token == token_details(st, t)
             updated_total_supply == checked_add(token.total_supply, value)
         IN
    IF updated_to_balance = None
    THEN Err(st, "overflow in calculating balance")
    ELSE IF chk # ""
    THEN Err(st, chk)
    ELSE IF updated_total_supply = None
    THEN Err(st, "overflow in calculating total supply")
    ELSE IF ~(updated_total_supply <= MAX_SUPPLY)
    THEN Err(st, "Total supply above the limit")
    ELSE LET s1 == _update_checkpoint(st, t, to_did, current_to_balance)
             s2 == [s1 EXCEPT
                      !.BalanceOf = Insert(@, <<t, to_did>>, updated_to_balance),
                      !.Tokens = Insert(@, t, [token EXCEPT
                                     !.total_supply = updated_total_supply])]
             ticker_round == <<t, funding_round(st, t)>>
             issued_in_this_round ==
                 checked_add(issued_in_funding_round(s2, ticker_round), value)
         IN  IF issued_in_this_round = None
             THEN Err(s2, "current funding round total overflowed")
             ELSE Ok([s2 EXCEPT !.IssuedInFundingRound =
                         Insert(@, ticker_round, issued_in_this_round)])

\* _check_custody_allowance that compares the balance before the debit.
_check_custody_allowance_before_debit(st, t, holder_did, value) ==
    LET remaining_balance == checked_sub(balance_of(st, <<t, holder_did>>), value) IN
    IF remaining_balance = None
    THEN "underflow in balance deduction"
    ELSE IF ~(balance_of(st, <<t, holder_did>>) >= total_custody_allowance(st, <<t, holder_did>>))
    THEN "Insufficient balance for transfer"
    ELSE ""

_check_custody_allowance(st, t, holder_did, value) ==
    LET remaining_balance == checked_sub(balance_of(st, <<t, holder_did>>), value) IN
    IF remaining_balance = None
    THEN "underflow in balance deduction"
    ELSE IF ~(remaining_balance >= total_custody_allowance(st, <<t, holder_did>>))
    THEN "Insufficient balance for transfer"
    ELSE ""

\* _increase_custody_allowance that does not look the custodian up.
_increase_custody_allowance_for_any_did(st, t, holder_did, custodian_did, value) ==
    LET new_custody_allowance ==
            checked_add(total_custody_allowance(st, <<t, holder_did>>), value)
        old_allowance == custodian_allowance(st, <<t, holder_did, custodian_did>>)
        new_current_allowance == checked_add(old_allowance, value)
    IN
    IF new_custody_allowance = None
    THEN Err(st, "total custody allowance get overflowed")
    ELSE IF ~(balance_of(st, <<t, holder_did>>) >= new_custody_allowance)
    THEN Err(st, "Insufficient balance of holder did")
    ELSE IF new_current_allowance = None
    THEN Err(st, "allowance get overflowed")
    ELSE Ok([st EXCEPT
               !.CustodianAllowance =
                   Insert(@, <<t, holder_did, custodian_did>>, new_current_allowance),
               !.TotalCustodyAllowance =
                   Insert(@, <<t, holder_did>>, new_custody_allowance)])

_increase_custody_allowance(st, t, holder_did, custodian_did, value) ==
    LET new_custody_allowance ==
            checked_add(total_custody_allowance(st, <<t, holder_did>>), value)
        old_allowance == custodian_allowance(st, <<t, holder_did, custodian_did>>)
        new_current_allowance == checked_add(old_allowance, value)
    IN
    IF new_custody_allowance = None
    THEN Err(st, "total custody allowance get overflowed")
    ELSE IF ~(balance_of(st, <<t, holder_did>>) >= new_custody_allowance)
    THEN Err(st, "Insufficient balance of holder did")
    ELSE IF custodian_did \notin DidRecords
    THEN Err(st, "Invalid custodian DID")
    ELSE IF new_current_allowance = None
    THEN Err(st, "allowance get overflowed")
    ELSE Ok([st EXCEPT
               !.CustodianAllowance =
                   Insert(@, <<t, holder_did, custodian_did>>, new_current_allowance),
               !.TotalCustodyAllowance =
                   Insert(@, <<t, holder_did>>, new_custody_allowance)])

\* _accept_ticker_transfer without the removal of the old owner's link.
_accept_ticker_transfer_keeping_link(st, to_did, auth_id) ==
    IF ~Exists(st.Authorizations, <<to_did, auth_id>>)
    THEN Err(st, "AuthorizationError::Invalid")
    ELSE LET auth == authorizations(st, <<to_did, auth_id>>)
             t == auth.authorization_data.ticker
         IN
    IF auth.authorization_data.kind # "TransferTicker"
    THEN Err(st, "NoTickerTransferAuth")
    ELSE IF Exists(st.Tokens, t)
    THEN Err(st, "token already created")
    ELSE LET ticker_details == ticker_registration(st, t)
             c == consume_auth(st, ticker_details.owner, to_did, auth_id)
         IN
    IF c.res # "Ok"
    THEN c
    ELSE LET s2 == add_link(c.st, to_did, [kind |-> "TickerOwned", ticker |-> t],
                            ticker_details.expiry)
             link == s2.MultiPurposeNonce
         IN  Ok([s2 EXCEPT !.Tickers =
                    Insert(@, t, [ticker_registration(s2, t) EXCEPT
                                    !.owner = to_did, !.link_id = link])])

_accept_ticker_transfer(st, to_did, auth_id) ==
    IF ~Exists(st.Authorizations, <<to_did, auth_id>>)
    THEN Err(st, "AuthorizationError::Invalid")
    ELSE LET auth == authorizations(st, <<to_did, auth_id>>)
             t == auth.authorization_data.ticker
         IN
    IF auth.authorization_data.kind # "TransferTicker"
    THEN Err(st, "NoTickerTransferAuth")
    ELSE IF Exists(st.Tokens, t)
    THEN Err(st, "token already created")
    ELSE LET ticker_details == ticker_registration(st, t)
             c == consume_auth(st, ticker_details.owner, to_did, auth_id)
         IN
    IF c.res # "Ok"
    THEN c
    ELSE LET s1 == remove_link(c.st, ticker_details.owner, ticker_details.link_id)
             s2 == add_link(s1, to_did, [kind |-> "TickerOwned", ticker |-> t],
                            ticker_details.expiry)
             link == s2.MultiPurposeNonce
         IN  Ok([s2 EXCEPT !.Tickers =
                    Insert(@, t, [ticker_registration(s2, t) EXCEPT
                                    !.owner = to_did, !.link_id = link])])

\* _accept_token_ownership_transfer removing the old owner's TickerOwned
\* link only.
_accept_token_ownership_transfer_keeping_link(st, to_did, auth_id) ==
    IF ~Exists(st.Authorizations, <<to_did, auth_id>>)
    THEN Err(st, "AuthorizationError::Invalid")
    ELSE LET auth == authorizations(st, <<to_did, auth_id>>)
             t == auth.authorization_data.ticker
         IN
    IF auth.authorization_data.kind # "TransferTokenOwnership"
    THEN Err(st, "NotTickerOwnershipTransferAuth")
    ELSE IF ~Exists(st.Tokens, t)
    THEN Err(st, "Token does not exist")
    ELSE LET token == token_details(st, t)
             ticker_details == ticker_registration(st, t)
             c == consume_auth(st, token.owner_did, to_did, auth_id)
         IN
    IF c.res # "Ok"
    THEN c
    ELSE LET s2 == remove_link(c.st, ticker_details.owner, ticker_details.link_id)
             s3 == add_link(s2, to_did, [kind |-> "TickerOwned", ticker |-> t], None)
             ticker_link == s3.MultiPurposeNonce
             s4 == add_link(s3, to_did, [kind |-> "TokenOwned", ticker |-> t], None)
             token_link == s4.MultiPurposeNonce
         IN  Ok([s4 EXCEPT
                   !.Tickers = Insert(@, t, [ticker_registration(s4, t) EXCEPT
                                   !.owner = to_did, !.link_id = ticker_link]),
                   !.Tokens = Insert(@, t, [token_details(s4, t) EXCEPT
                                   !.owner_did = to_did, !.link_id = token_link])])

\* _accept_token_ownership_transfer leaving the registration to the old owner.
_accept_token_ownership_transfer_of_token_only(st, to_did, auth_id) ==
    IF ~Exists(st.Authorizations, <<to_did, auth_id>>)
    THEN Err(st, "AuthorizationError::Invalid")
    ELSE LET auth == authorizations(st, <<to_did, auth_id>>)
             t == auth.authorization_data.ticker
         IN
    IF auth.authorization_data.kind # "TransferTokenOwnership"
    THEN Err(st, "NotTickerOwnershipTransferAuth")
    ELSE IF ~Exists(st.Tokens, t)
    THEN Err(st, "Token does not exist")
    ELSE LET token == token_details(st, t)
             ticker_details == ticker_registration(st, t)
             c == consume_auth(st, token.owner_did, to_did, auth_id)
         IN
    IF c.res # "Ok"
    THEN c
    ELSE LET s1 == remove_link(c.st, ticker_details.owner, ticker_details.link_id)
             s2 == remove_link(s1, token.owner_did, token.link_id)
             s3 == add_link(s2, to_did, [kind |-> "TickerOwned", ticker |-> t], None)
             ticker_link == s3.MultiPurposeNonce
             s4 == add_link(s3, to_did, [kind |-> "TokenOwned", ticker |-> t], None)
             token_link == s4.MultiPurposeNonce
         IN  Ok([s4 EXCEPT
                   !.Tokens = Insert(@, t, [token_details(s4, t) EXCEPT
                                   !.owner_did = to_did, !.link_id = token_link])])

_accept_token_ownership_transfer(st, to_did, auth_id) ==
    IF ~Exists(st.Authorizations, <<to_did, auth_id>>)
    THEN Err(st, "AuthorizationError::Invalid")
    ELSE LET auth == authorizations(st, <<to_did, auth_id>>)
             t == auth.authorization_data.ticker
         IN
    IF auth.authorization_data.kind # "TransferTokenOwnership"
    THEN Err(st, "NotTickerOwnershipTransferAuth")
    ELSE IF ~Exists(st.Tokens, t)
    THEN Err(st, "Token does not exist")
    ELSE LET token == token_details(st, t)
             ticker_details == ticker_registration(st, t)
             c == consume_auth(st, token.owner_did, to_did, auth_id)
         IN
    IF c.res # "Ok"
    THEN c
    ELSE LET s1 == remove_link(c.st, ticker_details.owner, ticker_details.link_id)
             s2 == remove_link(s1, token.owner_did, token.link_id)
             s3 == add_link(s2, to_did, [kind |-> "TickerOwned", ticker |-> t], None)
             ticker_link == s3.MultiPurposeNonce
             s4 == add_link(s3, to_did, [kind |-> "TokenOwned", ticker |-> t], None)
             token_link == s4.MultiPurposeNonce
         IN  Ok([s4 EXCEPT
                   !.Tickers = Insert(@, t, [ticker_registration(s4, t) EXCEPT
                                   !.owner = to_did, !.link_id = ticker_link]),
                   !.Tokens = Insert(@, t, [token_details(s4, t) EXCEPT
                                   !.owner_did = to_did, !.link_id = token_link])])

----------------------------------------------------------------------------
(* Asset pallet: dispatchables.  `origin` is the identity whose master key *)
(* signed the call; the result is [res, st].                               *)

\* register_ticker that does not look for a token of the ticker.
register_ticker_over_token(st, origin, ticker) ==
    LET to_did == origin
        t == canonize(ticker).caller
    IN
    IF ~is_signer_authorized(to_did, origin)
    THEN Err(st, "sender must be a signing key for DID")
    ELSE IF ~(ticker_len(t) <= max_ticker_length)
    THEN Err(st, "ticker length over the limit")
    ELSE IF is_ticker_available_or_registered_to(st, t, to_did) = "RegisteredByOther"
    THEN Err(st, "ticker registered to someone else")
    ELSE LET expiry == IF registration_length # None
                       THEN now + registration_length ELSE None
         IN  Ok(_register_ticker(st, t, to_did, expiry))

register_ticker(st, origin, ticker) ==
    LET to_did == origin
        t == canonize(ticker).caller
    IN
    IF ~is_signer_authorized(to_did, origin)
    THEN Err(st, "sender must be a signing key for DID")
    ELSE IF Exists(st.Tokens, t)
    THEN Err(st, "token already created")
    ELSE IF ~(ticker_len(t) <= max_ticker_length)
    THEN Err(st, "ticker length over the limit")
    ELSE IF is_ticker_available_or_registered_to(st, t, to_did) = "RegisteredByOther"
    THEN Err(st, "ticker registered to someone else")
    ELSE LET expiry == IF registration_length # None
                       THEN now + registration_length ELSE None
         IN  Ok(_register_ticker(st, t, to_did, expiry))

accept_ticker_transfer(st, origin, auth_id) ==
    _accept_ticker_transfer(st, origin, auth_id)

accept_token_ownership_transfer(st, origin, auth_id) ==
    _accept_token_ownership_transfer(st, origin, auth_id)

\* The fee transfers to the validators and register_asset_did are external
\* collaborators and succeed.
\* create_token without the limit on the length of the name.
create_token_of_any_name(st, origin, did, name_len, ticker, total_supply, divisible) ==
    LET t == canonize(ticker).caller
        status == is_ticker_available_or_registered_to(st, t, did)
    IN
    IF ~is_signer_authorized(did, origin)
    THEN Err(st, "sender must be a signing key for DID")
    ELSE IF Exists(st.Tokens, t)
    THEN Err(st, "token already created")
    ELSE IF ~(ticker_len(t) <= max_ticker_length)
    THEN Err(st, "ticker length over the limit")
    ELSE IF status = "RegisteredByOther"
    THEN Err(st, "Ticker registered to someone else")
    ELSE IF ~divisible /\ total_supply % ONE_UNIT # 0
    THEN Err(st, "Invalid Total supply")
    ELSE IF ~(total_supply <= MAX_SUPPLY)
    THEN Err(st, "Total supply above the limit")
    ELSE LET s1 == IF status = "Available"
                   THEN _register_ticker(st, t, did, None)
                   ELSE [st EXCEPT !.Tickers =
                           Insert(@, t, [ticker_registration(st, t) EXCEPT
                                           !.expiry = None])]
             s2 == add_link(s1, did, [kind |-> "TokenOwned", ticker |-> t], None)
             link == s2.MultiPurposeNonce
             token == [total_supply |-> total_supply, owner_did |-> did,
                       divisible |-> divisible, link_id |-> link]
         IN  Ok([s2 EXCEPT !.Tokens = Insert(@, t, token),
                           !.BalanceOf = Insert(@, <<t, did>>, total_supply)])

create_token(st, origin, did, name_len, ticker, total_supply, divisible) ==
    LET t == canonize(ticker).caller
        status == is_ticker_available_or_registered_to(st, t, did)
    IN
    IF ~is_signer_authorized(did, origin)
    THEN Err(st, "sender must be a signing key for DID")
    ELSE IF Exists(st.Tokens, t)
    THEN Err(st, "token already created")
    ELSE IF ~(ticker_len(t) <= max_ticker_length)
    THEN Err(st, "ticker length over the limit")
    ELSE IF ~(name_len <= 64)
    THEN Err(st, "token name cannot exceed 64 bytes")
    ELSE IF status = "RegisteredByOther"
    THEN Err(st, "Ticker registered to someone else")
    ELSE IF ~divisible /\ total_supply % ONE_UNIT # 0
    THEN Err(st, "Invalid Total supply")
    ELSE IF ~(total_supply <= MAX_SUPPLY)
    THEN Err(st, "Total supply above the limit")
    ELSE LET s1 == IF status = "Available"
                   THEN _register_ticker(st, t, did, None)
                   ELSE [st EXCEPT !.Tickers =
                           Insert(@, t, [ticker_registration(st, t) EXCEPT
                                           !.expiry = None])]
             s2 == add_link(s1, did, [kind |-> "TokenOwned", ticker |-> t], None)
             link == s2.MultiPurposeNonce
             token == [total_supply |-> total_supply, owner_did |-> did,
                       divisible |-> divisible, link_id |-> link]
         IN  Ok([s2 EXCEPT !.Tokens = Insert(@, t, token),
                           !.BalanceOf = Insert(@, <<t, did>>, total_supply)])

transfer(st, origin, did, t, to_did, value, env) ==
    LET cust == _check_custody_allowance(st, t, did, value)
        chk == transfer_check(st, t, did, to_did, value, env)
    IN
    IF ~is_signer_authorized(did, origin)
    THEN Err(st, "sender must be a signing key for DID")
    ELSE IF cust # "" THEN Err(st, cust)
    ELSE IF chk # "" THEN Err(st, chk)
    ELSE _transfer(st, t, did, to_did, value)

controller_transfer(st, origin, did, t, from_did, to_did, value) ==
    IF ~is_signer_authorized(did, origin)
    THEN Err(st, "sender must be a signing key for DID")
    ELSE IF ~is_owner(st, t, did)
    THEN Err(st, "user is not authorized")
    ELSE _transfer(st, t, from_did, to_did, value)

approve(st, origin, did, t, spender_did, value) ==
    LET updated_allowance == checked_add(allowance(st, <<t, did, spender_did>>), value) IN
    IF ~is_signer_authorized(did, origin)
    THEN Err(st, "sender must be a signing key for DID")
    ELSE IF ~Exists(st.BalanceOf, <<t, did>>)
    THEN Err(st, "Account does not own this token")
    ELSE IF updated_allowance = None
    THEN Err(st, "overflow in calculating allowance")
    ELSE Ok([st EXCEPT !.Allowance =
                Insert(@, <<t, did, spender_did>>, updated_allowance)])

\* transfer_from leaving the allowance as it was.
transfer_from_keeping_allowance(st, origin, did, t, from_did, to_did, value, env) ==
    LET key == <<t, from_did, did>>
        allow == allowance(st, key)
        cust == _check_custody_allowance(st, t, from_did, value)
        chk == transfer_check(st, t, from_did, to_did, value, env)
    IN
    IF ~is_signer_authorized(did, origin)
    THEN Err(st, "sender must be a signing key for DID")
    ELSE IF ~Exists(st.Allowance, key)
    THEN Err(st, "Allowance does not exist")
    ELSE IF ~(allow >= value)
    THEN Err(st, "Not enough allowance")
    ELSE IF cust # "" THEN Err(st, cust)
    ELSE IF chk # "" THEN Err(st, chk)
    ELSE _transfer(st, t, from_did, to_did, value)

transfer_from(st, origin, did, t, from_did, to_did, value, env) ==
    LET key == <<t, from_did, did>>
        allow == allowance(st, key)
        cust == _check_custody_allowance(st, t, from_did, value)
        chk == transfer_check(st, t, from_did, to_did, value, env)
    IN
    IF ~is_signer_authorized(did, origin)
    THEN Err(st, "sender must be a signing key for DID")
    ELSE IF ~Exists(st.Allowance, key)
    THEN Err(st, "Allowance does not exist")
    ELSE IF ~(allow >= value)
    THEN Err(st, "Not enough allowance")
    ELSE IF cust # "" THEN Err(st, cust)
    ELSE IF chk # "" THEN Err(st, chk)
    ELSE LET r == _transfer(st, t, from_did, to_did, value) IN
         IF r.res # "Ok"
         THEN r
         ELSE Ok([r.st EXCEPT !.Allowance =
                     Insert(@, key, checked_sub(allow, value))])

create_checkpoint(st, origin, did, t) ==
    IF ~is_signer_authorized(did, origin)
    THEN Err(st, "sender must be a signing key for DID")
    ELSE IF ~is_owner(st, t, did)
    THEN Err(st, "user is not authorized")
    ELSE _create_checkpoint(st, t)

issue(st, origin, did, t, to_did, value, env) ==
    IF ~is_signer_authorized(did, origin)
    THEN Err(st, "sender must be a signing key for DID")
    ELSE IF ~is_owner(st, t, did)
    THEN Err(st, "user is not authorized")
    ELSE _mint(st, t, to_did, value, env)

\* The round of per-investor checks of batch_issue, from index i on: the
\* error, or the balances read and computed and the new total supply.
RECURSIVE batch_issue_checks(_, _, _, _, _, _, _)
batch_issue_checks(st, t, investor_dids, values, env, i, acc) ==
    IF i > Len(investor_dids)
    THEN acc
    ELSE LET updated_total_supply == checked_add(acc.total_supply, values[i])
             current == balance_of(st, <<t, investor_dids[i]>>)
             updated == checked_add(current, values[i])
             chk == transfer_check(st, t, None, investor_dids[i], values[i], env)
         IN
    IF ~check_granularity(st, t, values[i])
    THEN [acc EXCEPT !.err = "Invalid granularity"]
    ELSE IF updated_total_supply = None
    THEN [acc EXCEPT !.err = "overflow in calculating total supply"]
    ELSE IF ~(updated_total_supply <= MAX_SUPPLY)
    THEN [acc EXCEPT !.err = "Total supply above the limit"]
    ELSE IF updated = None
    THEN [acc EXCEPT !.err = "overflow in calculating balance"]
    ELSE IF chk # ""
    THEN [acc EXCEPT !.err = chk]
    ELSE batch_issue_checks(st, t, investor_dids, values, env, i + 1,
             [acc EXCEPT !.total_supply = updated_total_supply,
                         !.current_balances = Append(@, current),
                         !.updated_balances = Append(@, updated)])

\* issued_in_this_round plus every value, None on overflow.
RECURSIVE batch_issue_round(_, _, _)
batch_issue_round(issued, values, i) ==
    IF i > Len(values) \/ issued = None
    THEN issued
    ELSE batch_issue_round(checked_add(issued, values[i]), values, i + 1)

\* The loop that updates the investors' balances, from index i on.
RECURSIVE batch_issue_apply(_, _, _, _, _)
batch_issue_apply(st, t, investor_dids, chk, i) ==
    IF i > Len(investor_dids)
    THEN st
    ELSE LET s1 == _update_checkpoint(st, t, investor_dids[i], chk.current_balances[i])
             s2 == [s1 EXCEPT !.BalanceOf =
                       Insert(@, <<t, investor_dids[i]>>, chk.updated_balances[i])]
         IN  batch_issue_apply(s2, t, investor_dids, chk, i + 1)

\* batch_issue that updates the balances and the supply before it adds up
\* the funding round.
batch_issue_writing_first(st, origin, did, t, investor_dids, values, env) ==
    IF ~is_signer_authorized(did, origin)
    THEN Err(st, "sender must be a signing key for DID")
    ELSE IF ~(Len(investor_dids) > 0)
    THEN Err(st, "list of investors is empty")
    ELSE IF Len(investor_dids) # Len(values)
    THEN Err(st, "Investor/amount list length inconsistent")
    ELSE IF ~is_owner(st, t, did)
    THEN Err(st, "user is not authorized")
    ELSE LET token == token_details(st, t)
             chk == batch_issue_checks(st, t, investor_dids, values, env, 1,
                        [err |-> "", total_supply |-> token.total_supply,
                         current_balances |-> << >>, updated_balances |-> << >>])
             ticker_round == <<t, funding_round(st, t)>>
             issued_in_this_round ==
                 batch_issue_round(issued_in_funding_round(st, ticker_round), values, 1)
         IN
    IF chk.err # ""
    THEN Err(st, chk.err)
    ELSE LET s1 == batch_issue_apply(st, t, investor_dids, chk, 1)
             s2 == [s1 EXCEPT !.Tokens =
                       Insert(@, t, [token EXCEPT !.total_supply = chk.total_supply])]
         IN
    IF issued_in_this_round = None
    THEN Err(s2, "current funding round total overflowed")
    ELSE Ok([s2 EXCEPT !.IssuedInFundingRound =
                Insert(@, ticker_round, issued_in_this_round)])

batch_issue(st, origin, did, t, investor_dids, values, env) ==
    IF ~is_signer_authorized(did, origin)
    THEN Err(st, "sender must be a signing key for DID")
    ELSE IF ~(Len(investor_dids) > 0)
    THEN Err(st, "list of investors is empty")
    ELSE IF Len(investor_dids) # Len(values)
    THEN Err(st, "Investor/amount list length inconsistent")
    ELSE IF ~is_owner(st, t, did)
    THEN Err(st, "user is not authorized")
    ELSE LET token == token_details(st, t)
             chk == batch_issue_checks(st, t, investor_dids, values, env, 1,
                        [err |-> "", total_supply |-> token.total_supply,
                         current_balances |-> << >>, updated_balances |-> << >>])
             ticker_round == <<t, funding_round(st, t)>>
             issued_in_this_round ==
                 batch_issue_round(issued_in_funding_round(st, ticker_round), values, 1)
         IN
    IF chk.err # ""
    THEN Err(st, chk.err)
    ELSE IF issued_in_this_round = None
    THEN Err(st, "current funding round total overflowed")
    ELSE LET s1 == [st EXCEPT !.IssuedInFundingRound =
                       Insert(@, ticker_round, issued_in_this_round)]
             s2 == batch_issue_apply(s1, t, investor_dids, chk, 1)
         IN  Ok([s2 EXCEPT !.Tokens =
                    Insert(@, t, [token EXCEPT !.total_supply = chk.total_supply])])

\* The common tail of redeem, redeem_from and controller_redeem: the burn
\* of `value` from `burner`, after the checks have passed.
burn(st, t, burner, burner_balance, updated_burner_balance) ==
    LET token == token_details(st, t)
        s1 == _update_checkpoint(st, t, burner, burner_balance)
    IN  [s1 EXCEPT
           !.BalanceOf = Insert(@, <<t, burner>>, updated_burner_balance),
           !.Tokens = Insert(@, t, [token EXCEPT
                          !.total_supply = token.total_supply
                                             - (burner_balance - updated_burner_balance)])]

redeem(st, origin, did, t, value, env) ==
    LET burner_balance == balance_of(st, <<t, did>>)
        cust == _check_custody_allowance(st, t, did, value)
        chk == transfer_check(st, t, did, None, value, env)
    IN
    IF ~is_signer_authorized(did, origin)
    THEN Err(st, "sender must be a signing key for DID")
    ELSE IF ~check_granularity(st, t, value)
    THEN Err(st, "Invalid granularity")
    ELSE IF ~Exists(st.BalanceOf, <<t, did>>)
    THEN Err(st, "Account does not own this token")
    ELSE IF ~(burner_balance >= value)
    THEN Err(st, "Not enough balance.")
    ELSE IF cust # "" THEN Err(st, cust)
    ELSE IF chk # "" THEN Err(st, chk)
    ELSE IF checked_sub(token_details(st, t).total_supply, value) = None
    THEN Err(st, "overflow in calculating balance")
    ELSE Ok(burn(st, t, did, burner_balance, burner_balance - value))

redeem_from(st, origin, did, t, from_did, value, env) ==
    LET burner_balance == balance_of(st, <<t, did>>)
        key == <<t, from_did, did>>
        allow == allowance(st, key)
        cust == _check_custody_allowance(st, t, did, value)
        chk == transfer_check(st, t, from_did, None, value, env)
    IN
    IF ~is_signer_authorized(did, origin)
    THEN Err(st, "sender must be a signing key for DID")
    ELSE IF ~check_granularity(st, t, value)
    THEN Err(st, "Invalid granularity")
    ELSE IF ~Exists(st.BalanceOf, <<t, did>>)
    THEN Err(st, "Account does not own this token")
    ELSE IF ~(burner_balance >= value)
    THEN Err(st, "Not enough balance.")
    ELSE IF ~Exists(st.Allowance, key)
    THEN Err(st, "Allowance does not exist")
    ELSE IF ~(allow >= value)
    THEN Err(st, "Not enough allowance")
    ELSE IF cust # "" THEN Err(st, cust)
    ELSE IF chk # "" THEN Err(st, chk)
    ELSE IF checked_sub(token_details(st, t).total_supply, value) = None
    THEN Err(st, "overflow in calculating balance")
    ELSE LET s1 == burn(st, t, did, burner_balance, burner_balance - value) IN
         Ok([s1 EXCEPT !.Allowance = Insert(@, key, allow - value)])

controller_redeem(st, origin, did, t, token_holder_did, value) ==
    LET burner_balance == balance_of(st, <<t, token_holder_did>>) IN
    IF ~is_signer_authorized(did, origin)
    THEN Err(st, "sender must be a signing key for DID")
    ELSE IF ~is_owner(st, t, did)
    THEN Err(st, "user is not token owner")
    ELSE IF ~check_granularity(st, t, value)
    THEN Err(st, "Invalid granularity")
    ELSE IF ~Exists(st.BalanceOf, <<t, token_holder_did>>)
    THEN Err(st, "Account does not own this token")
    ELSE IF ~(burner_balance >= value)
    THEN Err(st, "Not enough balance.")
    ELSE IF checked_sub(token_details(st, t).total_supply, value) = None
    THEN Err(st, "overflow in calculating balance")
    ELSE Ok(burn(st, t, token_holder_did, burner_balance, burner_balance - value))

\* make_divisible switching the flag either way.
make_divisible_either_way(st, origin, did, t) ==
    IF ~is_signer_authorized(did, origin)
    THEN Err(st, "sender must be a signing key for DID")
    ELSE IF ~is_owner(st, t, did)
    THEN Err(st, "user is not authorized")
    ELSE Ok([st EXCEPT !.Tokens =
                Insert(@, t, [token_details(st, t) EXCEPT !.divisible = ~@])])

make_divisible(st, origin, did, t) ==
    IF ~is_signer_authorized(did, origin)
    THEN Err(st, "sender must be a signing key for DID")
    ELSE IF ~is_owner(st, t, did)
    THEN Err(st, "user is not authorized")
    ELSE IF token_details(st, t).divisible
    THEN Err(st, "token already divisible")
    ELSE Ok([st EXCEPT !.Tokens =
                Insert(@, t, [token_details(st, t) EXCEPT !.divisible = TRUE])])

\* freeze that freezes every token there is.
freeze_every_token(st, origin, t) ==
    IF ~Exists(st.Tokens, t)
    THEN Err(st, "token doesn't exist")
    ELSE IF ~is_signer_authorized(token_details(st, t).owner_did, origin)
    THEN Err(st, "sender must be a signing key for the token owner DID")
    ELSE IF frozen(st, t)
    THEN Err(st, "asset must not already be frozen")
    ELSE Ok([st EXCEPT !.Frozen = [u \in DOMAIN st.Tokens |-> TRUE]])

freeze(st, origin, t) ==
    IF ~Exists(st.Tokens, t)
    THEN Err(st, "token doesn't exist")
    ELSE IF ~is_signer_authorized(token_details(st, t).owner_did, origin)
    THEN Err(st, "sender must be a signing key for the token owner DID")
    ELSE IF frozen(st, t)
    THEN Err(st, "asset must not already be frozen")
    ELSE Ok([st EXCEPT !.Frozen = Insert(@, t, TRUE)])

unfreeze(st, origin, t) ==
    IF ~Exists(st.Tokens, t)
    THEN Err(st, "token doesn't exist")
    ELSE IF ~is_signer_authorized(token_details(st, t).owner_did, origin)
    THEN Err(st, "sender must be a signing key for the token owner DID")
    ELSE IF ~frozen(st, t)
    THEN Err(st, "asset must be frozen")
    ELSE Ok([st EXCEPT !.Frozen = Insert(@, t, FALSE)])

\* can_transfer that hands on the error of _is_valid_transfer.
can_transfer_or_error(st, t, from_did, to_did, value, env) ==
    LET balance == balance_of(st, <<t, from_did>>)
        current_balance == IF balance < value THEN 0 ELSE balance - value
        r == _is_valid_transfer(st, t, from_did, to_did, value, env)
    IN
    IF current_balance < total_custody_allowance(st, <<t, from_did>>)
    THEN [res |-> "Ok", st |-> st, code |-> ERC1400_INSUFFICIENT_BALANCE]
    ELSE IF r.err = ""
    THEN [res |-> "Ok", st |-> st, code |-> r.code]
    ELSE [res |-> r.err, st |-> st, code |-> ERC1400_TRANSFER_FAILURE]

\* can_transfer: the call has no result type and returns Ok(()); the status
\* code is the last argument of the CanTransfer event it deposits.
can_transfer(st, t, from_did, to_did, value, env) ==
    LET balance == balance_of(st, <<t, from_did>>)
        current_balance == IF balance < value THEN 0 ELSE balance - value
        r == _is_valid_transfer(st, t, from_did, to_did, value, env)
    IN
    IF current_balance < total_custody_allowance(st, <<t, from_did>>)
    THEN [res |-> "Ok", st |-> st, code |-> ERC1400_INSUFFICIENT_BALANCE]
    ELSE IF r.err = ""
    THEN [res |-> "Ok", st |-> st, code |-> r.code]
    ELSE [res |-> "Ok", st |-> st, code |-> ERC1400_TRANSFER_FAILURE]

increase_custody_allowance(st, origin, t, holder_did, custodian_did, value) ==
    IF ~is_signer_authorized(holder_did, origin)
    THEN Err(st, "sender must be a signing key for DID")
    ELSE _increase_custody_allowance(st, t, holder_did, custodian_did, value)

\* SignData, and an off-chain signature: the key that signed and what it signed.
SignData(custodian_did, holder_did, t, value, nonce) ==
    [custodian_did |-> custodian_did, holder_did |-> holder_did, ticker |-> t,
     value |-> value, nonce |-> nonce]
signature_verify(signature, msg, account_id) ==
    signature.by = account_id /\ signature.msg = msg

\* increase_custody_allowance_of without the final write of the nonce.
increase_custody_allowance_of_unmarked(st, origin, t, holder_did, holder_account_id, custodian_did, caller_did, value, nonce, signature) ==
    LET msg == SignData(custodian_did, holder_did, t, value, nonce) IN
    IF authentication_nonce(st, <<t, holder_did, nonce>>)
    THEN Err(st, "Signature already used")
    ELSE IF ~signature_verify(signature, msg, holder_account_id)
    THEN Err(st, "Invalid signature")
    ELSE IF ~is_signer_authorized(caller_did, origin)
    THEN Err(st, "sender must be a signing key for DID")
    ELSE IF ~is_signer_authorized(holder_did, holder_account_id)
    THEN Err(st, "holder signing key must be a signing key for holder DID")
    ELSE _increase_custody_allowance(st, t, holder_did, custodian_did, value)

\* holder_account_id is the master key of the identity of the same number.
increase_custody_allowance_of(st, origin, t, holder_did, holder_account_id, custodian_did, caller_did, value, nonce, signature) ==
    LET msg == SignData(custodian_did, holder_did, t, value, nonce) IN
    IF authentication_nonce(st, <<t, holder_did, nonce>>)
    THEN Err(st, "Signature already used")
    ELSE IF ~signature_verify(signature, msg, holder_account_id)
    THEN Err(st, "Invalid signature")
    ELSE IF ~is_signer_authorized(caller_did, origin)
    THEN Err(st, "sender must be a signing key for DID")
    ELSE IF ~is_signer_authorized(holder_did, holder_account_id)
    THEN Err(st, "holder signing key must be a signing key for holder DID")
    ELSE LET r == _increase_custody_allowance(st, t, holder_did, custodian_did, value) IN
         IF r.res # "Ok"
         THEN r
         ELSE Ok([r.st EXCEPT !.AuthenticationNonce =
                     Insert(@, <<t, holder_did, nonce>>, TRUE)])

transfer_by_custodian(st, origin, t, holder_did, custodian_did, receiver_did, value, env) ==
    LET custodian_allowance0 == custodian_allowance(st, <<t, holder_did, custodian_did>>)
        new_custodian_allowance == checked_sub(custodian_allowance0, value)
        new_total_allowance ==
            checked_sub(total_custody_allowance(st, <<t, holder_did>>), value)
        chk == transfer_check(st, t, holder_did, receiver_did, value, env)
    IN
    IF ~is_signer_authorized(custodian_did, origin)
    THEN Err(st, "sender must be a signing key for DID")
    ELSE IF ~(custodian_allowance0 >= value)
    THEN Err(st, "Insufficient allowance")
    ELSE IF new_total_allowance = None
    THEN Err(st, "underflow in calculating the total allowance")
    ELSE IF chk # "" THEN Err(st, chk)
    ELSE LET r == _transfer(st, t, holder_did, receiver_did, value) IN
         IF r.res # "Ok"
         THEN r
         ELSE Ok([r.st EXCEPT
                    !.CustodianAllowance =
                        Insert(@, <<t, custodian_did, holder_did>>,
                               new_custodian_allowance),
                    !.TotalCustodyAllowance =
                        Insert(@, <<t, holder_did>>, new_total_allowance)])

----------------------------------------------------------------------------
(* Identity pallet: dispatchables.                                         *)

add_authorization(st, origin, target, authorization_data, expiry) ==
    IF origin = NoDid
    THEN Err(st, "NoDIDFound")
    ELSE Ok(add_auth(st, origin, target, authorization_data, expiry))

remove_authorization(st, origin, target, auth_id) ==
    IF origin = NoDid
    THEN Err(st, "NoDIDFound")
    ELSE IF ~Exists(st.Authorizations, <<target, auth_id>>)
    THEN Err(st, "Invalid auth")
    ELSE LET auth == authorizations(st, <<target, auth_id>>) IN
         IF ~(auth.authorized_by = origin \/ target = origin)
         THEN Err(st, "Unauthorized")
         ELSE Ok(remove_auth(st, target, auth_id, auth.next_authorization,
                             auth.previous_authorization))

\* The first loop of batch_remove_authorization: the first error, or "".
RECURSIVE batch_remove_checks(_, _, _, _)
batch_remove_checks(st, origin, auth_identifiers, i) ==
    IF i > Len(auth_identifiers)
    THEN ""
    ELSE LET id == auth_identifiers[i] IN
         IF ~Exists(st.Authorizations, id)
         THEN "Invalid auth"
         ELSE IF ~(authorizations(st, id).authorized_by = origin \/ id[1] = origin)
         THEN "Unauthorized"
         ELSE batch_remove_checks(st, origin, auth_identifiers, i + 1)

\* The second loop: every authorization is read again and removed.
RECURSIVE batch_remove_apply(_, _, _)
batch_remove_apply(st, auth_identifiers, i) ==
    IF i > Len(auth_identifiers)
    THEN st
    ELSE LET id == auth_identifiers[i]
             auth == authorizations(st, id)
         IN  batch_remove_apply(
                 remove_auth(st, id[1], id[2], auth.next_authorization,
                             auth.previous_authorization),
                 auth_identifiers, i + 1)

batch_remove_authorization(st, origin, auth_identifiers) ==
    LET chk == batch_remove_checks(st, origin, auth_identifiers, 1) IN
    IF origin = NoDid
    THEN Err(st, "NoDIDFound")
    ELSE IF chk # ""
    THEN Err(st, chk)
    ELSE Ok(batch_remove_apply(st, auth_identifiers, 1))

----------------------------------------------------------------------------
(* The state machine.                                                      *)

\* What the properties need of the past: the balances at the moment each
\* checkpoint was created, the (ticker, identity) pairs whose balance has
\* changed since the first checkpoint of the ticker, and how many calls of
\* increase_custody_allowance_of succeeded per (ticker, holder, nonce),
\* counted up to 2, the (ticker, holder, nonce) with which it was called
\* again after a success, the (target, auth_id) of the accepted transfer
\* authorizations, and the ids of all authorizations and links ever added.
Observe(name, args, r) ==
    [snap |-> IF name = "create_checkpoint" /\ r.res = "Ok"
              THEN Insert(hist.snap,
                          <<args.ticker, total_checkpoints_of(r.st, args.ticker)>>,
                          r.st.BalanceOf)
              ELSE hist.snap,
     changed |-> hist.changed \cup
                 {k \in DOMAIN r.st.BalanceOf :
                     /\ Exists(r.st.TotalCheckpoints, k[1])
                     /\ Get(BalanceOf, k, 0) # r.st.BalanceOf[k]},
     nonce_ok |-> IF name = "increase_custody_allowance_of" /\ r.res = "Ok"
                  THEN LET k == <<args.ticker, args.holder_did, args.nonce>>
                           n == Get(hist.nonce_ok, k, 0)
                       IN  Insert(hist.nonce_ok, k, IF n >= 2 THEN 2 ELSE n + 1)
                  ELSE hist.nonce_ok,
     replayed |-> IF name = "increase_custody_allowance_of"
                     /\ Get(hist.nonce_ok,
                            <<args.ticker, args.holder_did, args.nonce>>, 0) >= 1
                  THEN hist.replayed \cup
                       {<<args.ticker, args.holder_did, args.nonce>>}
                  ELSE hist.replayed,
     accepted |-> IF name \in {"accept_ticker_transfer",
                               "accept_token_ownership_transfer"} /\ r.res = "Ok"
                  THEN hist.accepted \cup {<<args.origin, args.auth_id>>}
                  ELSE hist.accepted,
     ids |-> hist.ids \cup
             {k[2] : k \in (DOMAIN r.st.Authorizations \ DOMAIN Authorizations)
                           \cup (DOMAIN r.st.Links \ DOMAIN Links)},
     unspent |-> IF name = "approve" /\ r.res = "Ok"
                 THEN LET k == <<args.ticker, args.did, args.spender_did>>
                      IN  Insert(hist.unspent, k, Get(hist.unspent, k, 0) + args.value)
                 ELSE IF name = "transfer_from" /\ r.res = "Ok"
                 THEN LET k == <<args.ticker, args.from_did, args.did>>
                      IN  Insert(hist.unspent, k, Get(hist.unspent, k, 0) - args.value)
                 ELSE hist.unspent]

\* A dispatched call: the store the handler leaves, and the call's name and
\* whether it succeeded.
Dispatch(name, args, r) ==
    /\ Tickers' = r.st.Tickers
    /\ Tokens' = r.st.Tokens
    /\ BalanceOf' = r.st.BalanceOf
    /\ Allowance' = r.st.Allowance
    /\ TotalCheckpoints' = r.st.TotalCheckpoints
    /\ CheckpointTotalSupply' = r.st.CheckpointTotalSupply
    /\ CheckpointBalance' = r.st.CheckpointBalance
    /\ UserCheckpoints' = r.st.UserCheckpoints
    /\ CustodianAllowance' = r.st.CustodianAllowance
    /\ TotalCustodyAllowance' = r.st.TotalCustodyAllowance
    /\ AuthenticationNonce' = r.st.AuthenticationNonce
    /\ IssuedInFundingRound' = r.st.IssuedInFundingRound
    /\ Frozen' = r.st.Frozen
    /\ MultiPurposeNonce' = r.st.MultiPurposeNonce
    /\ Authorizations' = r.st.Authorizations
    /\ LastAuthorization' = r.st.LastAuthorization
    /\ Links' = r.st.Links
    /\ LastLink' = r.st.LastLink
    /\ now' = now
    /\ last' = [op |-> name, res |-> IF r.res = "Ok" THEN "Ok" ELSE "Err"]
    /\ hist' = Observe(name, args, r)

Init ==
    /\ Tickers = EmptyMap
    /\ Tokens = EmptyMap
    /\ BalanceOf = EmptyMap
    /\ Allowance = EmptyMap
    /\ TotalCheckpoints = EmptyMap
    /\ CheckpointTotalSupply = EmptyMap
    /\ CheckpointBalance = EmptyMap
    /\ UserCheckpoints = EmptyMap
    /\ CustodianAllowance = EmptyMap
    /\ TotalCustodyAllowance = EmptyMap
    /\ AuthenticationNonce = EmptyMap
    /\ IssuedInFundingRound = EmptyMap
    /\ Frozen = EmptyMap
    /\ MultiPurposeNonce = 1
    /\ Authorizations = EmptyMap
    /\ LastAuthorization = EmptyMap
    /\ Links = EmptyMap
    /\ LastLink = EmptyMap
    /\ now = 0
    /\ last = [op |-> "genesis", res |-> "Ok"]
    /\ hist = [snap |-> EmptyMap, changed |-> {}, nonce_ok |-> EmptyMap,
               replayed |-> {}, accepted |-> {}, ids |-> {}, unspent |-> EmptyMap]

\* The model stops adding records when the n ids a call can draw would take
\* the id counter past MaxNonce.
NonceLeft(n) == MultiPurposeNonce + n <= MaxNonce

set_timestamp ==
    /\ now < MaxTime
    /\ now' = now + 1
    /\ last' = [op |-> "set_timestamp", res |-> "Ok"]
    /\ UNCHANGED <<Tickers, Tokens, BalanceOf, Allowance, TotalCheckpoints,
                   CheckpointTotalSupply, CheckpointBalance, UserCheckpoints,
                   CustodianAllowance, TotalCustodyAllowance,
                   AuthenticationNonce, IssuedInFundingRound, Frozen,
                   MultiPurposeNonce, Authorizations, LastAuthorization,
                   Links, LastLink, hist>>

do_register_ticker(origin, t) ==
    /\ NonceLeft(1)
    /\ Dispatch("register_ticker", [origin |-> origin, ticker |-> t],
                register_ticker(Store, origin, t))

do_create_token(origin, did, t, total_supply, divisible) ==
    /\ NonceLeft(2)
    /\ Dispatch("create_token",
                [origin |-> origin, did |-> did, ticker |-> t,
                 total_supply |-> total_supply, divisible |-> divisible],
                create_token(Store, origin, did, 1, t, total_supply, divisible))

do_transfer(origin, did, t, to_did, value, env) ==
    Dispatch("transfer",
             [origin |-> origin, did |-> did, ticker |-> t, to_did |-> to_did,
              value |-> value, env |-> env],
             transfer(Store, origin, did, t, to_did, value, env))

do_controller_transfer(origin, did, t, from_did, to_did, value) ==
    Dispatch("controller_transfer",
             [origin |-> origin, did |-> did, ticker |-> t, from_did |-> from_did,
              to_did |-> to_did, value |-> value],
             controller_transfer(Store, origin, did, t, from_did, to_did, value))

do_approve(origin, did, t, spender_did, value) ==
    Dispatch("approve",
             [origin |-> origin, did |-> did, ticker |-> t,
              spender_did |-> spender_did, value |-> value],
             approve(Store, origin, did, t, spender_did, value))

do_transfer_from(origin, did, t, from_did, to_did, value, env) ==
    Dispatch("transfer_from",
             [origin |-> origin, did |-> did, ticker |-> t, from_did |-> from_did,
              to_did |-> to_did, value |-> value, env |-> env],
             transfer_from(Store, origin, did, t, from_did, to_did, value, env))

do_create_checkpoint(origin, did, t) ==
    /\ total_checkpoints_of(Store, t) < MaxCheckpoints
    /\ Dispatch("create_checkpoint", [origin |-> origin, did |-> did, ticker |-> t],
                create_checkpoint(Store, origin, did, t))

do_issue(origin, did, t, to_did, value, env) ==
    Dispatch("issue",
             [origin |-> origin, did |-> did, ticker |-> t, to_did |-> to_did,
              value |-> value, env |-> env],
             issue(Store, origin, did, t, to_did, value, env))

do_batch_issue(origin, did, t, investor_dids, values, env) ==
    Dispatch("batch_issue",
             [origin |-> origin, did |-> did, ticker |-> t,
              investor_dids |-> investor_dids, values |-> values, env |-> env],
             batch_issue(Store, origin, did, t, investor_dids, values, env))

do_redeem(origin, did, t, value, env) ==
    Dispatch("redeem",
             [origin |-> origin, did |-> did, ticker |-> t, value |-> value,
              env |-> env],
             redeem(Store, origin, did, t, value, env))

do_redeem_from(origin, did, t, from_did, value, env) ==
    Dispatch("redeem_from",
             [origin |-> origin, did |-> did, ticker |-> t, from_did |-> from_did,
              value |-> value, env |-> env],
             redeem_from(Store, origin, did, t, from_did, value, env))

do_controller_redeem(origin, did, t, token_holder_did, value) ==
    Dispatch("controller_redeem",
             [origin |-> origin, did |-> did, ticker |-> t,
              token_holder_did |-> token_holder_did, value |-> value],
             controller_redeem(Store, origin, did, t, token_holder_did, value))

do_increase_custody_allowance(origin, t, holder_did, custodian_did, value) ==
    Dispatch("increase_custody_allowance",
             [origin |-> origin, ticker |-> t, holder_did |-> holder_did,
              custodian_did |-> custodian_did, value |-> value],
             increase_custody_allowance(Store, origin, t, holder_did,
                                        custodian_did, value))

do_increase_custody_allowance_of(origin, t, holder_did, holder_account_id, custodian_did, caller_did, value, nonce, signature) ==
    Dispatch("increase_custody_allowance_of",
             [origin |-> origin, ticker |-> t, holder_did |-> holder_did,
              holder_account_id |-> holder_account_id,
              custodian_did |-> custodian_did, caller_did |-> caller_did,
              value |-> value, nonce |-> nonce, signature |-> signature],
             increase_custody_allowance_of(Store, origin, t, holder_did,
                 holder_account_id, custodian_did, caller_did, value, nonce,
                 signature))

do_transfer_by_custodian(origin, t, holder_did, custodian_did, receiver_did, value, env) ==
    Dispatch("transfer_by_custodian",
             [origin |-> origin, ticker |-> t, holder_did |-> holder_did,
              custodian_did |-> custodian_did, receiver_did |-> receiver_did,
              value |-> value, env |-> env],
             transfer_by_custodian(Store, origin, t, holder_did, custodian_did,
                                   receiver_did, value, env))

do_add_authorization(origin, target, authorization_data, expiry) ==
    /\ NonceLeft(1)
    /\ Dispatch("add_authorization",
                [origin |-> origin, target |-> target,
                 authorization_data |-> authorization_data, expiry |-> expiry],
                add_authorization(Store, origin, target, authorization_data, expiry))

do_remove_authorization(origin, target, auth_id) ==
    Dispatch("remove_authorization",
             [origin |-> origin, target |-> target, auth_id |-> auth_id],
             remove_authorization(Store, origin, target, auth_id))

do_batch_remove_authorization(origin, auth_identifiers) ==
    Dispatch("batch_remove_authorization",
             [origin |-> origin, auth_identifiers |-> auth_identifiers],
             batch_remove_authorization(Store, origin, auth_identifiers))

do_can_transfer(t, from_did, to_did, value, env) ==
    Dispatch("can_transfer",
             [ticker |-> t, from_did |-> from_did, to_did |-> to_did,
              value |-> value, env |-> env],
             can_transfer(Store, t, from_did, to_did, value, env))

do_make_divisible(origin, did, t) ==
    Dispatch("make_divisible", [origin |-> origin, did |-> did, ticker |-> t],
             make_divisible(Store, origin, did, t))

do_freeze(origin, t) ==
    Dispatch("freeze", [origin |-> origin, ticker |-> t], freeze(Store, origin, t))

do_unfreeze(origin, t) ==
    Dispatch("unfreeze", [origin |-> origin, ticker |-> t], unfreeze(Store, origin, t))

\* consume_auth called by another module, with the signers it chooses.
do_consume_auth(from, target, auth_id) ==
    Dispatch("consume_auth",
             [from |-> from, target |-> target, auth_id |-> auth_id],
             consume_auth(Store, from, target, auth_id))

do_accept_ticker_transfer(origin, auth_id) ==
    /\ NonceLeft(1)
    /\ Dispatch("accept_ticker_transfer", [origin |-> origin, auth_id |-> auth_id],
                accept_ticker_transfer(Store, origin, auth_id))

do_accept_token_ownership_transfer(origin, auth_id) ==
    /\ NonceLeft(2)
    /\ Dispatch("accept_token_ownership_transfer",
                [origin |-> origin, auth_id |-> auth_id],
                accept_token_ownership_transfer(Store, origin, auth_id))

----------------------------------------------------------------------------
(* Inputs.                                                                 *)

\* The ticker "A".
T1 == <<65>>
\* The verifiers' configurations: every transfer allowed, rejected by the
\* general verifier, and a 50% ownership cap.
EnvOk == [gtm |-> ERC1400_TRANSFER_SUCCESS, max_percentage |-> 0, is_exempted |-> FALSE]
EnvFail == [gtm |-> ERC1400_TRANSFER_FAILURE, max_percentage |-> 0, is_exempted |-> FALSE]
EnvCap == [gtm |-> ERC1400_TRANSFER_SUCCESS, max_percentage |-> 50, is_exempted |-> FALSE]

----------------------------------------------------------------------------
(* The token ledger: the token of ticker "A" is created by identity 1;     *)
(* identities 1 and 2 hold, approve, transfer and redeem.                  *)

Next ==
    \/ \E total_supply \in {2, 3}, divisible \in BOOLEAN :
           do_create_token(1, 1, T1, total_supply, divisible)
    \/ \E to_did \in {1, 2}, value \in {1, 2}, env \in {EnvOk, EnvFail} :
           do_issue(1, 1, T1, to_did, value, env)
    \/ \E investor_dids \in {<<2, 2>>, <<1, 2>>}, values \in {<<1, 1>>, <<2, 1>>} :
           do_batch_issue(1, 1, T1, investor_dids, values, EnvOk)
    \/ \E did \in {1, 2}, to_did \in {1, 2}, value \in {1, 2}, env \in {EnvOk, EnvCap} :
           do_transfer(did, did, T1, to_did, value, env)
    \/ \E value \in {1, 2} : do_approve(1, 1, T1, 2, value)
    \/ \E to_did \in {1, 2}, value \in {1, 2} :
           do_transfer_from(2, 2, T1, 1, to_did, value, EnvOk)
    \/ \E from_did \in {1, 2}, to_did \in {1, 2}, value \in {1, 2} :
           do_controller_transfer(1, 1, T1, from_did, to_did, value)
    \/ \E did \in {1, 2}, value \in {1, 2} : do_redeem(did, did, T1, value, EnvOk)
    \/ \E value \in {1, 2} : do_redeem_from(2, 2, T1, 1, value, EnvOk)
    \/ \E holder \in {1, 2}, value \in {1, 2} :
           do_controller_redeem(1, 1, T1, holder, value)

Spec == Init /\ [][Next]_vars

----------------------------------------------------------------------------
(* Custodial allowance: identity 1 holds token "A" and grants allowances to *)
(* the custodians 2 and 3.                                                 *)

NextCustody ==
    \/ do_create_token(1, 1, T1, 3, TRUE)
    \/ \E to_did \in {1, 2}, value \in {1, 2} :
           do_transfer(1, 1, T1, to_did, value, EnvOk)
    \/ \E from_did \in {1, 2}, value \in {1, 2} :
           do_controller_transfer(1, 1, T1, from_did, 3 - from_did, value)
    \/ \E value \in {1, 2} : do_controller_redeem(1, 1, T1, 1, value)
    \/ \E custodian \in {2, 3}, value \in {1, 2} :
           do_increase_custody_allowance(1, T1, 1, custodian, value)
    \/ \E custodian \in {2, 3}, receiver \in {1, 2}, value \in {1, 2} :
           do_transfer_by_custodian(custodian, T1, 1, custodian, receiver, value, EnvOk)

SpecCustody == Init /\ [][NextCustody]_vars

----------------------------------------------------------------------------
(* Custody allowance by off-chain signature: identity 2 submits the        *)
(* increases that holder 1 signed for custodian 2, who spends them.        *)

\* The signatures offered with SignData msg: the holder's own, and one of
\* another key.
Signatures(msg, holder_account_id) ==
    {[by |-> holder_account_id, msg |-> msg], [by |-> 3, msg |-> msg]}

NextNonce ==
    \/ do_create_token(1, 1, T1, 3, TRUE)
    \/ \E value \in {1, 2}, nonce \in {1, 2} :
           \E signature \in Signatures(SignData(2, 1, T1, value, nonce), 1) :
               do_increase_custody_allowance_of(2, T1, 1, 1, 2, 2, value, nonce,
                                                signature)
    \/ \E receiver \in {1, 2}, value \in {1, 2} :
           do_transfer_by_custodian(2, T1, 1, 2, receiver, value, EnvOk)

SpecNonce == Init /\ [][NextNonce]_vars

----------------------------------------------------------------------------
(* Checkpoints: token "A" of identity 1 is checkpointed while identities 1 *)
(* and 2 transfer, receive issuances and redeem.                           *)

NextCheckpoint ==
    \/ do_create_token(1, 1, T1, 2, TRUE)
    \/ do_create_checkpoint(1, 1, T1)
    \/ \E to_did \in {1, 2} : do_transfer(1, 1, T1, to_did, 1, EnvOk)
    \/ do_issue(1, 1, T1, 2, 1, EnvOk)
    \/ do_batch_issue(1, 1, T1, <<2, 2>>, <<1, 1>>, EnvOk)
    \/ do_redeem(2, 2, T1, 1, EnvOk)

SpecCheckpoint == Init /\ [][NextCheckpoint]_vars

----------------------------------------------------------------------------
(* The registry: identities 1 and 2 register ticker "A", create its token, *)
(* and hand both over by authorizations that identity 1 adds and that are  *)
(* accepted, or expire, while time passes.                                 *)

TransferTicker(t) == [kind |-> "TransferTicker", ticker |-> t]
TransferTokenOwnership(t) == [kind |-> "TransferTokenOwnership", ticker |-> t]
\* The ids an authorization can have in the model.
AuthIds == 2..MaxNonce

NextRegistry ==
    \/ do_register_ticker(1, T1)
    \/ \E did \in {1, 2} : do_create_token(did, did, T1, 2, TRUE)
    \/ \/ \E authorization_data \in {TransferTicker(T1), TransferTokenOwnership(T1)} :
              do_add_authorization(1, 2, authorization_data, None)
       \/ do_add_authorization(1, 1, TransferTokenOwnership(T1), None)
       \/ do_add_authorization(1, 1, TransferTicker(T1), 1)
    \/ \E origin \in {1, 2}, auth_id \in AuthIds :
           do_accept_ticker_transfer(origin, auth_id)
    \/ \E origin \in {1, 2}, auth_id \in AuthIds :
           do_accept_token_ownership_transfer(origin, auth_id)
    \/ set_timestamp

SpecRegistry == Init /\ [][NextRegistry]_vars

----------------------------------------------------------------------------
(* The record lists: identities 1 and 2 add, remove and accept             *)
(* authorizations for identity 2, and identity 1 registers the tickers "A" *)
(* and "B", whose links come and go with registration and transfer.        *)

\* The ticker "B".
T2 == <<66>>
\* The identifiers a batch names: the authorizations there are and one there
\* never is.
AuthIdentifiers == DOMAIN Authorizations \cup {<<1, 1>>}

NextList ==
    \/ \E t \in {T1, T2} : do_register_ticker(1, t)
    \/ \E origin \in {1, 2} : do_add_authorization(origin, 2, TransferTicker(T1), None)
    \/ \E origin \in {1, 2}, auth_id \in AuthIds : do_remove_authorization(origin, 2, auth_id)
    \/ \E origin \in {1, 2}, a \in AuthIdentifiers, b \in AuthIdentifiers :
           do_batch_remove_authorization(origin, <<a, b>>)
    \/ \E auth_id \in AuthIds : do_accept_ticker_transfer(2, auth_id)

SpecList == Init /\ [][NextList]_vars

\* The authorizations of identity 2 and the links of identity 1: added with
\* and without an expiry, removed, consumed, while time passes.
NextAuth ==
    \/ do_register_ticker(1, T1)
    \/ \E expiry \in {None, 1} : do_add_authorization(1, 2, TransferTicker(T1), expiry)
    \/ \E auth_id \in AuthIds : do_remove_authorization(2, 2, auth_id)
    \/ \E from \in {1, 2}, auth_id \in AuthIds : do_consume_auth(from, 2, auth_id)
    \/ set_timestamp

SpecAuth == Init /\ [][NextAuth]_vars

-----------------------------------------------------------------------------
(* Issuance: identity 1 creates token "A", issues to identities 2 and 3    *)
(* one by one and in batches, checkpoints the token, burns balances as its *)
(* controller, and freezes it.                                             *)

\* batch_issue calls: did, investor_dids, values and the verifiers' answer.
BatchCalls ==
    {<<1, <<2, 3>>, <<1, 1>>, EnvOk>>, <<1, <<2, 3>>, <<2, 1>>, EnvOk>>,
     <<1, <<2>>, <<1>>, EnvFail>>, <<1, << >>, << >>, EnvOk>>,
     <<1, <<2, 3>>, <<1>>, EnvOk>>, <<2, <<2>>, <<1>>, EnvOk>>}

NextIssue ==
    \/ \E divisible \in BOOLEAN : do_create_token(1, 1, T1, 0, divisible)
    \/ do_freeze(1, T1)
    \/ do_create_checkpoint(1, 1, T1)
    \/ \E value \in {1, 2} : do_issue(1, 1, T1, 2, value, EnvOk)
    \/ \E c \in BatchCalls : do_batch_issue(c[1], c[1], T1, c[2], c[3], c[4])
    \/ \E value \in {1, 2} : do_controller_redeem(1, 1, T1, 2, value)

SpecIssue == Init /\ [][NextIssue]_vars

-----------------------------------------------------------------------------
(* Freezing: identity 1 freezes and unfreezes its token "A" while it       *)
(* issues, transfers, and moves and burns balances as the controller.      *)

NextFreeze ==
    \/ do_create_token(1, 1, T1, 2, TRUE)
    \/ \E origin \in {1, 2} : do_freeze(origin, T1)
    \/ \E origin \in {1, 2} : do_unfreeze(origin, T1)
    \/ do_issue(1, 1, T1, 2, 1, EnvOk)
    \/ do_batch_issue(1, 1, T1, <<2>>, <<1>>, EnvOk)
    \/ \E did \in {1, 2} : do_transfer(did, did, T1, 3 - did, 1, EnvOk)
    \/ do_approve(1, 1, T1, 2, 1)
    \/ do_transfer_from(2, 2, T1, 1, 2, 1, EnvOk)
    \/ do_controller_transfer(1, 1, T1, 1, 2, 1)
    \/ do_redeem(1, 1, T1, 1, EnvOk)
    \/ do_controller_redeem(1, 1, T1, 1, 1)
    \/ \E from_did \in {1, 2}, value \in {1, MAX_SUPPLY}, env \in {EnvOk, EnvFail} :
           do_can_transfer(T1, from_did, 3 - from_did, value, env)

SpecFreeze == Init /\ [][NextFreeze]_vars

-----------------------------------------------------------------------------
(* Granularity: identity 1 creates token "A", divisible or not, approves   *)
(* identity 2 as spender and as custodian, and every call that moves,      *)
(* mints or burns is made with one unit and with less.                     *)

Values == {1, ONE_UNIT}

NextGranularity ==
    \/ \E divisible \in BOOLEAN : do_create_token(1, 1, T1, ONE_UNIT, divisible)
    \/ do_approve(1, 1, T1, 2, ONE_UNIT)
    \/ do_increase_custody_allowance(1, T1, 1, 2, ONE_UNIT)
    \/ \E value \in Values : do_issue(1, 1, T1, 2, value, EnvOk)
    \/ \E value \in Values : do_batch_issue(1, 1, T1, <<2>>, <<value>>, EnvOk)
    \/ \E value \in Values : do_transfer(1, 1, T1, 2, value, EnvOk)
    \/ \E value \in Values : do_transfer_from(2, 2, T1, 1, 2, value, EnvOk)
    \/ \E value \in Values : do_transfer_by_custodian(2, T1, 1, 2, 2, value, EnvOk)
    \/ \E value \in Values : do_controller_transfer(1, 1, T1, 2, 1, value)
    \/ \E value \in Values : do_redeem(2, 2, T1, value, EnvOk)
    \/ \E value \in Values : do_redeem_from(2, 2, T1, 1, value, EnvOk)
    \/ \E value \in Values : do_controller_redeem(1, 1, T1, 2, value)

SpecGranularity == Init /\ [][NextGranularity]_vars

-----------------------------------------------------------------------------
(* Letter case: identities 1 and 2 register the tickers "a" and "A" and    *)
(* create their tokens while time passes.                                  *)

Ta == <<97>>

NextCase ==
    \/ \E origin \in {1, 2}, t \in {Ta, T1} : do_register_ticker(origin, t)
    \/ \E did \in {1, 2}, t \in {Ta, T1} : do_create_token(did, did, t, 2, TRUE)
    \/ set_timestamp

SpecCase == Init /\ [][NextCase]_vars

-----------------------------------------------------------------------------
(* Pledged balances: identity 1 holds token "A", pledges part of it to the *)
(* custodian 2 and approves identity 2 as spender; both debit identity 1.  *)

NextPledge ==
    \/ do_create_token(1, 1, T1, MAX_SUPPLY, TRUE)
    \/ \E value \in {1, 2} : do_increase_custody_allowance(1, T1, 1, 2, value)
    \/ \E value \in {1, 2} : do_approve(1, 1, T1, 2, value)
    \/ \E value \in {1, 2} : do_transfer(1, 1, T1, 2, value, EnvOk)
    \/ \E value \in {1, 2} : do_transfer_from(2, 2, T1, 1, 2, value, EnvOk)

SpecPledge == Init /\ [][NextPledge]_vars

-----------------------------------------------------------------------------
(* Two tickers: identity 1 registers "A" and "B" and creates their tokens; *)
(* token "A" is checkpointed, approved and transferred, and token "B" is   *)
(* frozen.                                                                 *)

NextTwo ==
    \/ \E t \in {T1, T2} : do_register_ticker(1, t)
    \/ \E t \in {T1, T2} : do_create_token(1, 1, t, 1, TRUE)
    \/ do_freeze(1, T2)
    \/ do_transfer(1, 1, T1, 2, 1, EnvOk)
    \/ do_create_checkpoint(1, 1, T1)
    \/ do_approve(1, 1, T1, 2, 1)

SpecTwo == Init /\ [][NextTwo]_vars

-----------------------------------------------------------------------------
(* Two tickers, in either order: identity 1 registers "A" and "B" and      *)
(* creates their tokens, transfers "A" and freezes "B".                    *)

NextPair ==
    \/ \E t \in {T1, T2} : do_register_ticker(1, t)
    \/ \E t \in {T1, T2} : do_create_token(1, 1, t, 1, TRUE)
    \/ do_transfer(1, 1, T1, 2, 1, EnvOk)
    \/ do_freeze(1, T2)

SpecPair == Init /\ [][NextPair]_vars

-----------------------------------------------------------------------------
(* Supply: identity 1 creates the tokens "A" and "B", with a supply within *)
(* the limit or above it, and issues to identities 2 and 3, one by one     *)
(* and, for "A", in batches.                                               *)

NextSupply ==
    \/ \E t \in {T1, T2}, total_supply \in {1, MAX_SUPPLY + 1} :
          do_create_token(1, 1, t, total_supply, TRUE)
    \/ \E t \in {T1, T2}, to_did \in {2, 3}, value \in {1, 2} :
          do_issue(1, 1, t, to_did, value, EnvOk)
    \/ \E c \in BatchCalls : do_batch_issue(c[1], c[1], T1, c[2], c[3], c[4])

SpecSupply == Init /\ [][NextSupply]_vars

-----------------------------------------------------------------------------
(* Divisibility: identity 1 creates the token "A", divisible or not, makes *)
(* it divisible, issues, transfers and burns it, and hands it over to      *)
(* identity 2.                                                             *)

NextDivisible ==
    \/ \E divisible \in BOOLEAN : do_create_token(1, 1, T1, ONE_UNIT, divisible)
    \/ \E origin \in {1, 2} : do_make_divisible(origin, origin, T1)
    \/ \E value \in Values : do_issue(1, 1, T1, 2, value, EnvOk)
    \/ \E value \in Values : do_transfer(1, 1, T1, 2, value, EnvOk)
    \/ \E value \in Values : do_controller_redeem(1, 1, T1, 2, value)
    \/ do_add_authorization(1, 2, TransferTokenOwnership(T1), None)
    \/ \E auth_id \in AuthIds : do_accept_token_ownership_transfer(2, auth_id)

SpecDivisible == Init /\ [][NextDivisible]_vars

----------------------------------------------------------------------------
(* Properties.                                                             *)

RECURSIVE SumOver(_, _)
SumOver(m, keys) ==
    IF keys = {} THEN 0
    ELSE LET k == CHOOSE x \in keys : TRUE IN m[k] + SumOver(m, keys \ {k})

\* The sum of all balances of ticker t.
SumBalances(t) == SumOver(BalanceOf, {k \in DOMAIN BalanceOf : k[1] = t})

\* C1: for every ticker with a created token, the sum of all balances of the
\* ticker equals the token's total_supply after every operation.
C1_Conservation ==
    \A t \in DOMAIN Tokens : SumBalances(t) = Tokens[t].total_supply

\* The (ticker, holder) pairs with a custody allowance entry of either kind.
CustodyHolders ==
    DOMAIN TotalCustodyAllowance \cup {<<k[1], k[2]>> : k \in DOMAIN CustodianAllowance}

\* C2: for every ticker and holder, balance(ticker, holder) >=
\* TotalCustodyAllowance(ticker, holder) after every operation.
C2_CustodyInvariant ==
    \A k \in CustodyHolders :
        balance_of(Store, k) >= total_custody_allowance(Store, k)

\* A step is a successful call `name` whose handler yields r.
Succeeded(name, r) ==
    /\ last'.op = name
    /\ last'.res = "Ok"
    /\ r.res = "Ok"
    /\ Store' = r.st

\* C5: each successful transfer_by_custodian(ticker, H, C, receiver, value)
\* lowers CustodianAllowance(ticker, H, C) by exactly value and
\* TotalCustodyAllowance(ticker, H) by exactly value.
C5_CustodianDebit ==
    [][\A custodian \in {2, 3}, receiver \in {1, 2}, value \in {1, 2} :
          Succeeded("transfer_by_custodian",
                    transfer_by_custodian(Store, custodian, T1, 1, custodian,
                                          receiver, value, EnvOk))
          => /\ custodian_allowance(Store', <<T1, 1, custodian>>)
                  = custodian_allowance(Store, <<T1, 1, custodian>>) - value
             /\ total_custody_allowance(Store', <<T1, 1>>)
                  = total_custody_allowance(Store, <<T1, 1>>) - value]_vars

\* C6: for every ticker and holder, TotalCustodyAllowance(ticker, holder) is
\* the sum over all custodians of CustodianAllowance(ticker, holder, custodian).
C6_TotalIsSum ==
    \A k \in CustodyHolders :
        total_custody_allowance(Store, k)
          = SumOver(CustodianAllowance,
                    {c \in DOMAIN CustodianAllowance : c[1] = k[1] /\ c[2] = k[2]})

\* C7: for any (ticker, holder, nonce) at most one increase_custody_allowance_of
\* succeeds; once one has, every further call with that triple, whether its
\* signature is valid or not, fails and leaves the store as it was.
C7_NonceOnce ==
    /\ \A k \in DOMAIN hist.nonce_ok : hist.nonce_ok[k] <= 1
    /\ \A nonce \in {1, 2}, value \in {1, 2} :
         Get(hist.nonce_ok, <<T1, 1, nonce>>, 0) >= 1 =>
           \A signature \in Signatures(SignData(2, 1, T1, value, nonce), 1) :
              LET r == increase_custody_allowance_of(Store, 2, T1, 1, 1, 2, 2,
                                                     value, nonce, signature)
              IN  r.res # "Ok" /\ r.st = Store

\* A call repeating an already used triple has been dispatched and failed.
C7_Witness ==
    /\ hist.replayed # {}
    /\ last.op = "increase_custody_allowance_of"
    /\ last.res = "Err"
    /\ \E k \in hist.replayed : authentication_nonce(Store, k)

\* C3: for every ticker, identity and checkpoint id k with 1 <= k <= the
\* ticker's latest checkpoint id, get_balance_at(ticker, identity, k) is the
\* balance the identity held when checkpoint k was created, whatever
\* transfers, issuances, redemptions and checkpoints came after.
C3_BalanceAtCheckpoint ==
    \A t \in DOMAIN TotalCheckpoints :
        \A k \in 1..total_checkpoints_of(Store, t) :
            /\ Exists(hist.snap, <<t, k>>)
            /\ \A did \in DidRecords :
                   get_balance_at(Store, t, did, k) = Get(hist.snap[<<t, k>>], <<t, did>>, 0)

\* Identity 1 holds a balance other than the ones it held at checkpoints 1
\* and 2, which differ, and has a record for each.
C3_Witness ==
    /\ total_checkpoints_of(Store, T1) >= 2
    /\ user_checkpoints(Store, <<T1, 1>>) = <<1, 2>>
    /\ Get(hist.snap[<<T1, 1>>], <<T1, 1>>, 0) # Get(hist.snap[<<T1, 2>>], <<T1, 1>>, 0)
    /\ Get(hist.snap[<<T1, 2>>], <<T1, 1>>, 0) # balance_of(Store, <<T1, 1>>)

\* C4: get_balance_at(ticker, identity, 0) and get_balance_at(ticker,
\* identity, latest + 1) are the identity's current balance; and for an
\* identity whose balance has not changed since the ticker's first checkpoint
\* (so also one whose balance never changed) get_balance_at is the current
\* balance for every checkpoint id.
C4_BoundaryCases ==
    \A t \in DOMAIN Tokens : \A did \in DidRecords :
        /\ get_balance_at(Store, t, did, 0) = balance_of(Store, <<t, did>>)
        /\ get_balance_at(Store, t, did, total_checkpoints_of(Store, t) + 1)
             = balance_of(Store, <<t, did>>)
        /\ <<t, did>> \notin hist.changed =>
             \A at \in 0..(MaxCheckpoints + 1) :
                 get_balance_at(Store, t, did, at) = balance_of(Store, <<t, did>>)

\* Two checkpoints exist, identity 1 has a record at one of them and a balance
\* that differs from it, and identity 2 holds tokens that have not moved since
\* before the first checkpoint.
C4_Witness ==
    /\ total_checkpoints_of(Store, T1) >= 2
    /\ <<T1, 1>> \in hist.changed
    /\ user_checkpoints(Store, <<T1, 1>>) # << >>
    /\ get_balance_at(Store, T1, 1, 1) # balance_of(Store, <<T1, 1>>)
    /\ <<T1, 2>> \notin hist.changed
    /\ balance_of(Store, <<T1, 2>>) > 0

\* The links of `target` that carry link_data.
LinksOf(st, target, link_data) ==
    {k \in DOMAIN st.Links : k[1] = target /\ st.Links[k].link_data = link_data}
TickerOwned(t) == [kind |-> "TickerOwned", ticker |-> t]
TokenOwned(t) == [kind |-> "TokenOwned", ticker |-> t]

\* C8: a successful accept_ticker_transfer of ticker T from its owner A to B
\* leaves no TickerOwned link that A held for T, exactly one TickerOwned link
\* for T with B, B as the owner in the registration, and no authorization
\* record, so that accept_ticker_transfer with the same auth_id fails, then
\* and ever after.
C8_TickerHandshake ==
    /\ [][\A to_did \in {1, 2}, auth_id \in AuthIds :
            LET r == accept_ticker_transfer(Store, to_did, auth_id)
                t == authorizations(Store, <<to_did, auth_id>>).authorization_data.ticker
                old == ticker_registration(Store, t)
            IN  Succeeded("accept_ticker_transfer", r) =>
                  /\ LinksOf(Store, old.owner, TickerOwned(t)) \cap DOMAIN Links' = {}
                  /\ old.owner # to_did => LinksOf(Store', old.owner, TickerOwned(t)) = {}
                  /\ Cardinality(LinksOf(Store', to_did, TickerOwned(t))) = 1
                  /\ ticker_registration(Store', t).owner = to_did
                  /\ ~Exists(Authorizations', <<to_did, auth_id>>)
                  /\ \A origin \in DidRecords :
                         accept_ticker_transfer(Store', origin, auth_id).res # "Ok"]_vars
    /\ [](\A k \in hist.accepted :
            /\ ~Exists(Authorizations, k)
            /\ \A origin \in DidRecords :
                   accept_ticker_transfer(Store, origin, k[2]).res # "Ok")

\* Identity 2 has just accepted ticker "A" from identity 1, which had
\* registered it.
C8_Witness ==
    /\ last = [op |-> "accept_ticker_transfer", res |-> "Ok"]
    /\ ticker_registration(Store, T1).owner = 2
    /\ LinksOf(Store, 2, TickerOwned(T1)) # {}
    /\ \E k \in hist.accepted : k[1] = 2

\* The state a successful accept_token_ownership_transfer to to_did by
\* auth_id leaves: the links the old owner held are gone, to_did holds one
\* link of each kind and is the owner in both records, and the authorization
\* is gone and not acceptable again.
TokenHandshakeDone(st, t, old_owner, to_did, auth_id) ==
    /\ (LinksOf(Store, old_owner, TickerOwned(t)) \cup
        LinksOf(Store, old_owner, TokenOwned(t))) \cap DOMAIN st.Links = {}
    /\ Cardinality(LinksOf(st, to_did, TickerOwned(t))) = 1
    /\ Cardinality(LinksOf(st, to_did, TokenOwned(t))) = 1
    /\ ticker_registration(st, t).owner = to_did
    /\ token_details(st, t).owner_did = to_did
    /\ ~Exists(st.Authorizations, <<to_did, auth_id>>)
    /\ \A origin \in DidRecords :
           accept_token_ownership_transfer(st, origin, auth_id).res # "Ok"

\* C9: a successful accept_token_ownership_transfer of ticker T from its owner
\* A to B leaves A with neither a TickerOwned nor a TokenOwned link for T, B
\* with exactly one of each, B as the owner in registration and token, and no
\* authorization record, so that it cannot be accepted again.
C9_TokenHandshake ==
    [][\A to_did \in {1, 2}, auth_id \in AuthIds :
          LET r == accept_token_ownership_transfer(Store, to_did, auth_id)
              t == authorizations(Store, <<to_did, auth_id>>).authorization_data.ticker
              old_owner == token_details(Store, t).owner_did
          IN  Succeeded("accept_token_ownership_transfer", r) =>
                /\ LinksOf(Store', old_owner, TickerOwned(t)) = {}
                /\ LinksOf(Store', old_owner, TokenOwned(t)) = {}
                /\ TokenHandshakeDone(Store', t, old_owner, to_did, auth_id)]_vars

\* C9, amended: as C9, but A is left without links for T only if B is another
\* identity; if A hands the token to itself, the links it held are replaced by
\* one new link of each kind.
C9_TokenHandshakeDistinct ==
    /\ [][\A to_did \in {1, 2}, auth_id \in AuthIds :
            LET r == accept_token_ownership_transfer(Store, to_did, auth_id)
                t == authorizations(Store, <<to_did, auth_id>>).authorization_data.ticker
                old_owner == token_details(Store, t).owner_did
            IN  Succeeded("accept_token_ownership_transfer", r) =>
                  /\ old_owner # to_did =>
                       /\ LinksOf(Store', old_owner, TickerOwned(t)) = {}
                       /\ LinksOf(Store', old_owner, TokenOwned(t)) = {}
                  /\ TokenHandshakeDone(Store', t, old_owner, to_did, auth_id)]_vars
    /\ [](\A k \in hist.accepted :
            /\ ~Exists(Authorizations, k)
            /\ \A origin \in DidRecords :
                   accept_token_ownership_transfer(Store, origin, k[2]).res # "Ok")

\* Identity 2 has just accepted the token of ticker "A" from identity 1.
C9_Witness ==
    /\ last = [op |-> "accept_token_ownership_transfer", res |-> "Ok"]
    /\ token_details(Store, T1).owner_did = 2
    /\ ticker_registration(Store, T1).owner = 2
    /\ LinksOf(Store, 2, TokenOwned(T1)) # {}
    /\ LinksOf(Store, 1, TokenOwned(T1)) = {}

\* The ids met walking previous pointers from id, at most fuel of them.
RECURSIVE WalkBack(_, _, _)
WalkBack(nodes, id, fuel) ==
    IF id = 0 \/ fuel = 0 \/ id \notin DOMAIN nodes
    THEN << >>
    ELSE <<id>> \o WalkBack(nodes, nodes[id].previous, fuel - 1)

\* nodes (id -> [next, previous]) with tail pointer `tail` are a valid doubly
\* linked list.
ValidList(nodes, tail) ==
    LET ids == DOMAIN nodes
        walk == WalkBack(nodes, tail, Cardinality(ids) + 1)
    IN  /\ (tail = 0) <=> (ids = {})
        /\ tail # 0 => tail \in ids /\ nodes[tail].next = 0
        /\ \A i \in ids :
               /\ nodes[i].next # 0 =>
                    nodes[i].next \in ids /\ nodes[nodes[i].next].previous = i
               /\ nodes[i].previous # 0 =>
                    nodes[i].previous \in ids /\ nodes[nodes[i].previous].next = i
        /\ Len(walk) = Cardinality(ids)
        /\ {walk[i] : i \in 1..Len(walk)} = ids

AuthNodes(target) ==
    LET ids == {k[2] : k \in {k \in DOMAIN Authorizations : k[1] = target}} IN
    [i \in ids |-> [next |-> Authorizations[<<target, i>>].next_authorization,
                    previous |-> Authorizations[<<target, i>>].previous_authorization]]
LinkNodes(target) ==
    LET ids == {k[2] : k \in {k \in DOMAIN Links : k[1] = target}} IN
    [i \in ids |-> [next |-> Links[<<target, i>>].next_link,
                    previous |-> Links[<<target, i>>].previous_link]]

\* C10: after any sequence of add_authorization, remove_authorization,
\* batch_remove_authorization (also with an authorization named twice),
\* acceptance, add_link and remove_link, the authorizations and the links of
\* every target are valid doubly linked lists: the tail pointer is 0 exactly
\* when there are no records and else names a record whose next pointer is 0,
\* every non-zero pointer names a record of the target that points back, and
\* the walk along previous pointers from the tail meets every record once.
C10_ValidLists ==
    \A target \in DidRecords :
        /\ ValidList(AuthNodes(target), last_authorization(Store, target))
        /\ ValidList(LinkNodes(target), last_link(Store, target))

\* The authorizations and links a step adds.
AddedAuthorizations == DOMAIN Authorizations' \ DOMAIN Authorizations
AddedLinks == DOMAIN Links' \ DOMAIN Links

\* C11: every id given to an authorization or a link is not 0, is greater
\* than every id given before it, to authorizations and links alike, and is
\* given to no other record afterwards, also when the record that had it is
\* removed.
C11_FreshIds ==
    /\ [][/\ \A k \in AddedAuthorizations \cup AddedLinks :
                /\ k[2] # 0
                /\ k[2] \notin hist.ids
                /\ \A i \in hist.ids : k[2] > i
          /\ Cardinality({k[2] : k \in AddedAuthorizations \cup AddedLinks})
               = Cardinality(AddedAuthorizations) + Cardinality(AddedLinks)]_vars
    /\ [](\A k \in DOMAIN Authorizations \cup DOMAIN Links :
              k[2] # 0 /\ k[2] \in hist.ids)

\* An authorization was removed, and an authorization and a link have been
\* added since.
C11_Witness ==
    \E i \in hist.ids :
        /\ \A k \in DOMAIN Authorizations \cup DOMAIN Links : k[2] # i
        /\ \E k \in DOMAIN Authorizations : k[2] > i
        /\ \E k \in DOMAIN Links : k[2] > i
        /\ last.op = "remove_authorization"

\* The signers and ids consume_auth is asked about.
ConsumeInputs == {1, 2} \X {1, 2} \X (1..MaxNonce)

\* Whether consume_auth(from, target, auth_id) is to succeed in this state.
ConsumeChecksPass(from, target, auth_id) ==
    /\ <<target, auth_id>> \in DOMAIN Authorizations
    /\ Authorizations[<<target, auth_id>>].authorized_by = from
    /\ LET expiry == Authorizations[<<target, auth_id>>].expiry
       IN  expiry = None \/ expiry > now

\* C12: consume_auth(from, target, auth_id) fails with Invalid when there is
\* no record for (target, auth_id), else with Unauthorized when the record
\* was not authorized by from, else with Expired when its expiry has passed;
\* a failing call changes nothing of the state, and a call that passes the
\* three checks, and only such a call, removes the record.
C12_ConsumeAuth ==
    /\ [](\A i \in ConsumeInputs :
            LET from == i[1]
                target == i[2]
                auth_id == i[3]
                key == <<target, auth_id>>
                r == consume_auth(Store, from, target, auth_id)
            IN  /\ r.res = (IF key \notin DOMAIN Authorizations
                            THEN "AuthorizationError::Invalid"
                            ELSE IF Authorizations[key].authorized_by # from
                            THEN "AuthorizationError::Unauthorized"
                            ELSE IF /\ Authorizations[key].expiry # None
                                    /\ Authorizations[key].expiry <= now
                            THEN "AuthorizationError::Expired"
                            ELSE "Ok")
                /\ r.res # "Ok" => r.st = Store
                /\ r.res = "Ok" =>
                       /\ key \notin DOMAIN r.st.Authorizations
                       /\ \A k \in DOMAIN Authorizations \ {key} :
                              k \in DOMAIN r.st.Authorizations)
    /\ [][last'.op = "consume_auth" =>
             IF last'.res = "Ok"
             THEN \E i \in ConsumeInputs :
                      /\ ConsumeChecksPass(i[1], i[2], i[3])
                      /\ DOMAIN Authorizations' = DOMAIN Authorizations \ {<<i[2], i[3]>>}
             ELSE Store' = Store /\ now' = now]_vars

\* A consume_auth failed while identity 2 holds an expired authorization and
\* one that its issuer, and no other signer, can consume.
C12_Witness ==
    /\ last.op = "consume_auth"
    /\ last.res = "Err"
    /\ \E k \in DOMAIN Authorizations :
           Authorizations[k].expiry # None /\ Authorizations[k].expiry <= now
    /\ \E k \in DOMAIN Authorizations :
           ConsumeChecksPass(1, k[1], k[2]) /\ ~ConsumeChecksPass(2, k[1], k[2])

\* The balances, the token records, the funding-round counters and the
\* checkpoint records are left as they were.
LedgerUnchanged ==
    /\ BalanceOf' = BalanceOf
    /\ Tokens' = Tokens
    /\ IssuedInFundingRound' = IssuedInFundingRound
    /\ TotalCheckpoints' = TotalCheckpoints
    /\ CheckpointTotalSupply' = CheckpointTotalSupply
    /\ CheckpointBalance' = CheckpointBalance
    /\ UserCheckpoints' = UserCheckpoints

\* C13: a batch_issue that fails, for whatever reason and at whatever
\* position of its lists, leaves every balance, the total supply, the
\* funding-round counter and every checkpoint record as before the call.
C13_BatchIssueAtomic ==
    [][last'.op = "batch_issue" /\ last'.res = "Err" => LedgerUnchanged]_vars

\* A batch_issue failed on a checkpointed token whose funding round has no
\* room left for an issuance that passes every check on the investors.
C13_Witness ==
    /\ last.op = "batch_issue"
    /\ last.res = "Err"
    /\ total_checkpoints_of(Store, T1) > 0
    /\ \E c \in BatchCalls :
           batch_issue(Store, c[1], c[1], T1, c[2], c[3], c[4]).res
             = "current funding round total overflowed"

\* C16: an issue that fails, for whatever reason, leaves the recipient's
\* balance, the total supply, the funding-round counter and the checkpoint
\* records as before the call.
C16_MintAtomic ==
    [][last'.op = "issue" /\ last'.res = "Err" => LedgerUnchanged]_vars

\* C14: while a ticker is frozen no balance of the ticker and not its total
\* supply changes, whatever is called.
C14_FrozenLedger ==
    [][frozen(Store, T1) =>
          /\ BalanceOf' = BalanceOf
          /\ token_details(Store, T1).total_supply
               = (IF T1 \in DOMAIN Tokens' THEN Tokens'[T1].total_supply ELSE 0)]_vars

\* What each of the calls that move, mint or burn answers to `value` in the
\* current state.
Answers(value) ==
    {issue(Store, 1, 1, T1, 2, value, EnvOk).res,
     batch_issue(Store, 1, 1, T1, <<2>>, <<value>>, EnvOk).res,
     transfer(Store, 1, 1, T1, 2, value, EnvOk).res,
     transfer_from(Store, 2, 2, T1, 1, 2, value, EnvOk).res,
     transfer_by_custodian(Store, 2, T1, 1, 2, 2, value, EnvOk).res,
     controller_transfer(Store, 1, 1, T1, 2, 1, value).res,
     redeem(Store, 2, 2, T1, value, EnvOk).res,
     redeem_from(Store, 2, 2, T1, 1, value, EnvOk).res,
     controller_redeem(Store, 1, 1, T1, 2, value).res}

\* The calls that change a balance or the total supply.
LedgerCalls ==
    {"issue", "batch_issue", "transfer", "transfer_from", "transfer_by_custodian",
     "controller_transfer", "redeem", "redeem_from", "controller_redeem"}

\* C15: for an indivisible token each of issue, batch_issue, transfer,
\* transfer_from, transfer_by_custodian, controller_transfer, redeem,
\* redeem_from and controller_redeem is rejected unless its value is a
\* multiple of ONE_UNIT, so that a call that succeeds changes every balance
\* and the total supply by a multiple of ONE_UNIT; for a divisible token none
\* of them rejects a value for its granularity.
C15_Granularity ==
    /\ [](\A value \in 0..MaxBalance :
            IF T1 \in DOMAIN Tokens /\ Tokens[T1].divisible
            THEN "Invalid granularity" \notin Answers(value)
            ELSE value % ONE_UNIT # 0 => "Ok" \notin Answers(value))
    /\ [][/\ last'.op \in LedgerCalls
          /\ last'.res = "Ok"
          /\ ~Tokens[T1].divisible
          => /\ \A k \in DOMAIN BalanceOf' :
                   (BalanceOf'[k] - balance_of(Store, k)) % ONE_UNIT = 0
             /\ (Tokens'[T1].total_supply - Tokens[T1].total_supply) % ONE_UNIT = 0]_vars

\* The custodian has moved a unit of an indivisible token, and a call with
\* less than a unit is answered with the granularity error.
C15_Witness ==
    /\ last.op = "transfer_by_custodian"
    /\ last.res = "Ok"
    /\ ~token_details(Store, T1).divisible
    /\ "Invalid granularity" \in Answers(1)

\* C17: a call with a symbol that has lowercase letters acts on the entries
\* of the uppercased symbol, so that every registration and every token is
\* kept under an uppercased symbol; and while identity A holds the
\* registration it made with a lowercase symbol, register_ticker of the
\* uppercased symbol by another identity fails.
C17_Canonical ==
    /\ \A t \in DOMAIN Tickers \cup DOMAIN Tokens : t = canonize(t).self
    /\ \A t \in DOMAIN Tickers, did \in {1, 2} :
           /\ Tickers[t].owner # did
           /\ Tickers[t].expiry # None => now <= Tickers[t].expiry
           => register_ticker(Store, did, canonize(t).self).res # "Ok"

\* C18: a token record, once created, is there in every later state, and
\* from then on every create_token, register_ticker and
\* accept_ticker_transfer for its ticker fails.
C18_TokenForever ==
    /\ [][\A t \in DOMAIN Tokens : t \in DOMAIN Tokens']_vars
    /\ [](\A t \in DOMAIN Tokens, did \in {1, 2} :
            /\ \A divisible \in BOOLEAN :
                   create_token(Store, did, did, 1, t, 2, divisible).res # "Ok"
            /\ register_ticker(Store, did, t).res # "Ok"
            /\ \A k \in DOMAIN Authorizations :
                   Authorizations[k].authorization_data = TransferTicker(t)
                   => accept_ticker_transfer(Store, did, k[2]).res # "Ok")
    /\ [][/\ T1 \in DOMAIN Tokens
          /\ last'.op \in {"create_token", "register_ticker", "accept_ticker_transfer"}
          => last'.res = "Err" /\ Tokens' = Tokens /\ Tickers' = Tickers]_vars

\* The token of "A" has been handed to identity 2, a transfer of the ticker
\* back to it is authorized, and a call for the ticker has just failed.
C18_Witness ==
    /\ T1 \in DOMAIN Tokens
    /\ Tokens[T1].owner_did = 2
    /\ \E k \in DOMAIN Authorizations :
           k[1] = 2 /\ Authorizations[k].authorization_data = TransferTicker(T1)
    /\ last.op \in {"create_token", "register_ticker", "accept_ticker_transfer"}
    /\ last.res = "Err"

\* Whether the registration of ticker t has an expiry that has passed.
Expired(t) == Tickers[t].expiry # None /\ now > Tickers[t].expiry

\* C19 as stated: is_ticker_available_or_registered_to(ticker, did) is
\* RegisteredByDid whenever the registration of the ticker names did as its
\* owner, whether or not its expiry has passed.
C19_RegisteredByDid ==
    \A t \in DOMAIN Tickers :
       is_ticker_available_or_registered_to(Store, t, Tickers[t].owner) = "RegisteredByDid"

\* C19, amended: is_ticker_available_or_registered_to(ticker, did), for the
\* did that the registration of the ticker names as owner, is RegisteredByDid
\* as long as the registration has no expiry or the time is not later than
\* its expiry, and Available once the expiry has passed.
C19_RegisteredUntilExpiry ==
    \A t \in DOMAIN Tickers :
       is_ticker_available_or_registered_to(Store, t, Tickers[t].owner)
         = (IF Expired(t) THEN "Available" ELSE "RegisteredByDid")

\* Identity 1 owns a registration whose expiry has passed and one whose
\* expiry is the current time.
C19_Witness ==
    \E t, u \in DOMAIN Tickers :
       /\ Tickers[t].owner = 1 /\ Expired(t)
       /\ Tickers[u].owner = 1 /\ Tickers[u].expiry = now

\* C20: register_ticker of a ticker of permitted length that has no token
\* and is registered to another identity succeeds if and only if the
\* registration has an expiry and the time is later than it; it then makes
\* the caller the owner, and a registration changes its owner in no other
\* register_ticker.
C20_TakeOver ==
    /\ [](\A t \in DOMAIN Tickers \ DOMAIN Tokens, did \in {1, 2} :
            /\ Tickers[t].owner # did
            /\ ticker_len(t) <= max_ticker_length
            => LET r == register_ticker(Store, did, t) IN
               /\ r.res = "Ok" <=> Expired(t)
               /\ r.res = "Ok" => r.st.Tickers[t].owner = did)
    /\ [][last'.op = "register_ticker" =>
             \A t \in DOMAIN Tickers :
                Tickers'[t].owner # Tickers[t].owner
                => last'.res = "Ok" /\ Expired(t) /\ t \notin DOMAIN Tokens]_vars

\* Identity 2 has just taken over ticker "A", which identity 1 had
\* registered and let expire.
C20_Witness ==
    /\ last.op = "register_ticker"
    /\ last.res = "Ok"
    /\ DOMAIN Tickers = {T1}
    /\ DOMAIN Tokens = {}
    /\ Tickers[T1].owner = 2
    /\ 1 \in DOMAIN LastLink

\* C21: the link_id of every registered ticker names a link record of the
\* registration's owner whose data is TickerOwned of that ticker, and no
\* other identity holds a TickerOwned link of the ticker.
C21_RegistrationLink ==
    \A t \in DOMAIN Tickers :
       LET key == <<Tickers[t].owner, Tickers[t].link_id>> IN
       /\ key \in DOMAIN Links
       /\ Links[key].link_data = TickerOwned(t)
       /\ \A k \in DOMAIN Links :
              Links[k].link_data = TickerOwned(t) => k[1] = Tickers[t].owner

\* Ticker "A" is with identity 2 after identity 1 had registered it, and the
\* link that identity 1 got for it, the first id given, is gone.
C21_Witness ==
    /\ T1 \in DOMAIN Tickers
    /\ Tickers[T1].owner = 2
    /\ 1 \in DOMAIN LastLink
    /\ <<1, 2>> \notin DOMAIN Links
    /\ LinksOf(Store, 2, TickerOwned(T1)) # {}

\* The errors of the custody check.
CustodyErrors == {"underflow in balance deduction", "Insufficient balance for transfer"}

\* What transfer and transfer_from answer to a debit of value from holder.
Debits(holder, value) ==
    {transfer(Store, holder, holder, T1, 3 - holder, value, EnvOk),
     transfer_from(Store, 3 - holder, 3 - holder, T1, holder, 3 - holder, value, EnvOk)}

\* C22: a debit of value from holder H by transfer or transfer_from fails and
\* changes no state whenever balance(H) - value < TotalCustodyAllowance(H),
\* and is not rejected by the custody check whenever balance(H) - value >=
\* TotalCustodyAllowance(H); a debit that succeeds leaves H at least what H
\* has pledged.
C22_CustodyCheck ==
    /\ [](\A holder \in {1, 2}, value \in 0..(MaxBalance + 1) :
            \A r \in Debits(holder, value) :
            IF balance_of(Store, <<T1, holder>>) - value
                 < total_custody_allowance(Store, <<T1, holder>>)
            THEN r.res # "Ok" /\ r.st = Store
            ELSE r.res \notin CustodyErrors)
    /\ [][last'.op \in {"transfer", "transfer_from"} =>
             IF last'.res = "Ok"
             THEN \A k \in DOMAIN BalanceOf :
                      BalanceOf'[k] < BalanceOf[k]
                      => BalanceOf'[k] >= total_custody_allowance(Store, k)
             ELSE Store' = Store]_vars

\* A transfer has failed while identity 1 can transfer 1 and is kept from
\* transferring 2 by what it has pledged.
C22_Witness ==
    /\ last = [op |-> "transfer", res |-> "Err"]
    /\ transfer(Store, 1, 1, T1, 2, 1, EnvOk).res = "Ok"
    /\ transfer(Store, 1, 1, T1, 2, 2, EnvOk).res = "Insufficient balance for transfer"

\* The status codes of a transfer.
StatusCodes ==
    {ERC1400_TRANSFER_FAILURE, ERC1400_TRANSFER_SUCCESS, ERC1400_INSUFFICIENT_BALANCE,
     ERC1400_INVALID_RECEIVER, APP_FUNDS_LIMIT_REACHED}

\* C23: can_transfer returns no error, whatever its arguments and the state,
\* a frozen asset, a token that does not exist and a balance below the value
\* included; it changes nothing that is stored and reports a status code.
C23_CanTransfer ==
    /\ [](\A from_did \in DidRecords, to_did \in DidRecords, value \in 0..(MaxBalance + 1) :
            \A t \in {T1, T2}, env \in {EnvOk, EnvFail, EnvCap} :
               LET r == can_transfer(Store, t, from_did, to_did, value, env) IN
               r.res = "Ok" /\ r.st = Store /\ r.code \in StatusCodes)
    /\ [][last'.op = "can_transfer" => last'.res = "Ok" /\ Store' = Store]_vars

\* can_transfer has been called on the frozen token "A", for more than
\* identity 2 holds.
C23_Witness ==
    /\ last.op = "can_transfer"
    /\ frozen(Store, T1)
    /\ balance_of(Store, <<T1, 2>>) < MAX_SUPPLY
    /\ can_transfer(Store, T1, 2, 1, MAX_SUPPLY, EnvOk).code = ERC1400_TRANSFER_FAILURE

\* What is stored for ticker t: the owner and expiry of its registration,
\* its token record, its balances, allowances, custodian and total custody
\* allowances, its frozen flag, checkpoint counter and checkpoint snapshots.
At(map, t) == [k \in DOMAIN map \cap {t} |-> map[k]]
Of(map, t) == [k \in {k \in DOMAIN map : k[1] = t} |-> map[k]]
TickerState(st, t) ==
    [registration |-> IF t \in DOMAIN st.Tickers
                      THEN <<st.Tickers[t].owner, st.Tickers[t].expiry>> ELSE << >>,
     token |-> At(st.Tokens, t),
     balances |-> Of(st.BalanceOf, t),
     allowances |-> Of(st.Allowance, t),
     custodian_allowances |-> Of(st.CustodianAllowance, t),
     total_custody_allowances |-> Of(st.TotalCustodyAllowance, t),
     frozen |-> At(st.Frozen, t),
     total_checkpoints |-> At(st.TotalCheckpoints, t),
     checkpoint_total_supply |-> Of(st.CheckpointTotalSupply, t),
     checkpoint_balances |-> Of(st.CheckpointBalance, t),
     user_checkpoints |-> Of(st.UserCheckpoints, t)]

\* The calls made on a ticker, and what call c on ticker t answers in st.
Calls ==
    {"register_ticker", "create_token", "freeze", "unfreeze", "make_divisible",
     "transfer", "controller_transfer", "approve", "transfer_from",
     "create_checkpoint", "issue", "batch_issue", "controller_redeem",
     "increase_custody_allowance", "transfer_by_custodian", "can_transfer"}
Call(st, c, t) ==
    CASE c = "register_ticker" -> register_ticker(st, 1, t)
      [] c = "create_token" -> create_token(st, 1, 1, 1, t, 2, TRUE)
      [] c = "freeze" -> freeze(st, 1, t)
      [] c = "unfreeze" -> unfreeze(st, 1, t)
      [] c = "make_divisible" -> make_divisible(st, 1, 1, t)
      [] c = "transfer" -> transfer(st, 1, 1, t, 2, 1, EnvOk)
      [] c = "controller_transfer" -> controller_transfer(st, 1, 1, t, 2, 1, 1)
      [] c = "approve" -> approve(st, 1, 1, t, 2, 1)
      [] c = "transfer_from" -> transfer_from(st, 2, 2, t, 1, 2, 1, EnvOk)
      [] c = "create_checkpoint" -> create_checkpoint(st, 1, 1, t)
      [] c = "issue" -> issue(st, 1, 1, t, 2, 1, EnvOk)
      [] c = "batch_issue" -> batch_issue(st, 1, 1, t, <<1, 2>>, <<1, 1>>, EnvOk)
      [] c = "controller_redeem" -> controller_redeem(st, 1, 1, t, 2, 1)
      [] c = "increase_custody_allowance" -> increase_custody_allowance(st, 1, t, 1, 2, 1)
      [] c = "transfer_by_custodian" -> transfer_by_custodian(st, 2, t, 1, 2, 2, 1, EnvOk)
      [] c = "can_transfer" -> can_transfer(st, t, 1, 2, 1, EnvOk)

\* C24: a call on one ticker leaves what is stored for every other ticker as
\* it was: the owner and expiry of the registration, the token record, the
\* balances, allowances, custodian and total custody allowances, the frozen
\* flag, the checkpoint counter and the checkpoint snapshots.
C24_Frame ==
    /\ [](\A c \in Calls, t \in {T1, T2}, u \in {T1, T2} :
            t # u => TickerState(Call(Store, c, t).st, u) = TickerState(Store, u))
    /\ [][\E t \in {T1, T2} :
             \A u \in {T1, T2} \ {t} : TickerState(Store', u) = TickerState(Store, u)]_vars

\* Both tokens exist with balances, "A" with a checkpoint and an approval,
\* and "B" has just been frozen.
C24_Witness ==
    /\ last = [op |-> "freeze", res |-> "Ok"]
    /\ frozen(Store, T2) /\ ~frozen(Store, T1)
    /\ balance_of(Store, <<T1, 2>>) > 0 /\ balance_of(Store, <<T2, 1>>) > 0
    /\ total_checkpoints_of(Store, T1) > 0
    /\ allowance(Store, <<T1, 1, 2>>) > 0

\* What the ledger and the registry store of st, and the same with the link
\* ids of the registrations and of the token records left out.
Stored(st) ==
    [Tickers |-> st.Tickers, Tokens |-> st.Tokens, BalanceOf |-> st.BalanceOf,
     Allowance |-> st.Allowance, TotalCheckpoints |-> st.TotalCheckpoints,
     CheckpointTotalSupply |-> st.CheckpointTotalSupply,
     CheckpointBalance |-> st.CheckpointBalance,
     UserCheckpoints |-> st.UserCheckpoints]
StoredButLinkIds(st) ==
    [Stored(st) EXCEPT
       !.Tickers = [t \in DOMAIN st.Tickers |-> [st.Tickers[t] EXCEPT !.link_id = 0]],
       !.Tokens = [t \in DOMAIN st.Tokens |-> [st.Tokens[t] EXCEPT !.link_id = 0]]]

\* Call a on "A" and then call b on "B", and the two in the opposite order.
\* A second call is made only after a first call that succeeded.
InOrder(a, b) ==
    LET first == Call(Store, a, T1)
    IN  [first |-> first,
         second |-> IF first.res = "Ok" THEN Call(first.st, b, T2) ELSE first]
Opposite(a, b) ==
    LET first == Call(Store, b, T2)
    IN  [first |-> first,
         second |-> IF first.res = "Ok" THEN Call(first.st, a, T1) ELSE first]
BothSucceed(pair) == pair.first.res = "Ok" /\ pair.second.res = "Ok"

\* C25 as stated: two calls on two different tickers that both succeed in
\* one order both succeed in the opposite order too, and the two orders leave
\* the same registrations with their link ids, token records, balances,
\* allowances and checkpoints.
C25_SameStored ==
    \A a \in Calls, b \in Calls :
       LET ab == InOrder(a, b)
           ba == Opposite(a, b)
       IN  BothSucceed(ab) =>
              BothSucceed(ba) /\ Stored(ba.second.st) = Stored(ab.second.st)

\* C25: two calls on two different tickers that both succeed in one order
\* both succeed in the opposite order too, and the two orders leave the same
\* registration owners and expiries, token records, balances, allowances and
\* checkpoints; the link ids are the ones the shared nonce hands out in the
\* order of the calls.
C25_SameButLinkIds ==
    \A a \in Calls, b \in Calls :
       LET ab == InOrder(a, b)
           ba == Opposite(a, b)
       IN  BothSucceed(ab) =>
              /\ BothSucceed(ba)
              /\ StoredButLinkIds(ba.second.st) = StoredButLinkIds(ab.second.st)

\* "B" was registered before "A", and creating the two tokens succeeds in
\* either order, leaving the same records but for the link ids.
C25_Witness ==
    /\ last = [op |-> "register_ticker", res |-> "Ok"]
    /\ T1 \in DOMAIN Tickers /\ T2 \in DOMAIN Tickers
    /\ Tickers[T2].link_id < Tickers[T1].link_id
    /\ BothSucceed(InOrder("create_token", "create_token"))
    /\ BothSucceed(Opposite("create_token", "create_token"))
    /\ Stored(InOrder("create_token", "create_token").second.st)
          # Stored(Opposite("create_token", "create_token").second.st)

RegisteredToAnother(t, did) ==
    t \in DOMAIN Tickers /\ Tickers[t].owner # did /\ ~Expired(t)

\* C27: create_token fails, and leaves the tokens, the balances and the
\* registrations as they were, if the ticker has a token, if the name is
\* longer than 64 bytes, if the token is indivisible and total_supply is not
\* a multiple of ONE_UNIT, if total_supply is above MAX_SUPPLY, or if the
\* ticker is at present registered to another identity.
C27_CreateTokenRejects ==
    /\ [](\A did \in {1, 2}, t \in {Ta, T1}, name_len \in {64, 65},
             total_supply \in {0, 1, MAX_SUPPLY, MAX_SUPPLY + 1}, divisible \in BOOLEAN :
            LET r == create_token(Store, did, did, name_len, t, total_supply, divisible) IN
            (\/ Exists(Tokens, t)
             \/ name_len > 64
             \/ ~divisible /\ total_supply % ONE_UNIT # 0
             \/ total_supply > MAX_SUPPLY
             \/ RegisteredToAnother(t, did))
            => /\ r.res # "Ok"
               /\ r.st.Tokens = Tokens
               /\ r.st.BalanceOf = BalanceOf
               /\ r.st.Tickers = Tickers)
    /\ [][last'.op = "create_token" /\ last'.res = "Err"
            => Tokens' = Tokens /\ BalanceOf' = BalanceOf /\ Tickers' = Tickers]_vars

\* A create_token has just failed; "A" is registered to identity 2 and has
\* no token, so that identity 1 is refused it, and "a" has a token.
C27_Witness ==
    /\ last = [op |-> "create_token", res |-> "Err"]
    /\ RegisteredToAnother(T1, 1)
    /\ ~Exists(Tokens, T1)
    /\ Exists(Tokens, Ta)
    /\ create_token(Store, 1, 1, 1, T1, 2, TRUE).res = "Ticker registered to someone else"
    /\ create_token(Store, 2, 2, 1, Ta, 2, TRUE).res = "token already created"

\* The answers the two verifiers can give: the general verifier's status
\* code, with the percentage verifier switched off or capping at 50%.
VerifierAnswers ==
    {[gtm |-> gtm, max_percentage |-> max_percentage, is_exempted |-> FALSE] :
        gtm \in {ERC1400_TRANSFER_SUCCESS, ERC1400_TRANSFER_FAILURE},
        max_percentage \in {0, 50}}

\* C28: on a frozen ticker _is_valid_transfer returns the error "asset is
\* frozen" whatever the verifiers would answer; on any other ticker it
\* returns the general verifier's status code when that code is not success,
\* and what the percentage verifier returns when, and only when, the general
\* verifier's code is success.
C28_VerifierOrder ==
    /\ [](\A to_did \in {1, 2, None}, value \in 0..MAX_SUPPLY, env \in VerifierAnswers :
            LET r == _is_valid_transfer(Store, T1, 1, to_did, value, env)
                percentage == percentage_verify_restriction(Store, T1, to_did, value, env)
            IN  /\ frozen(Store, T1) => r = [err |-> "asset is frozen", code |-> 0]
                /\ ~frozen(Store, T1) /\ env.gtm # ERC1400_TRANSFER_SUCCESS
                      => r = [err |-> "", code |-> env.gtm]
                /\ ~frozen(Store, T1) /\ env.gtm = ERC1400_TRANSFER_SUCCESS
                      => r = percentage
                /\ r = percentage /\ percentage.code # env.gtm
                      => env.gtm = ERC1400_TRANSFER_SUCCESS)
    /\ [][frozen(Store, T1) /\ last'.op \in {"transfer", "transfer_from", "issue"}
            => last'.res = "Err"]_vars

\* The token is frozen with balances on both sides, the percentage verifier
\* would refuse a transfer to identity 2, and a transfer has just failed.
C28_Witness ==
    /\ last = [op |-> "transfer", res |-> "Err"]
    /\ frozen(Store, T1)
    /\ balance_of(Store, <<T1, 1>>) > 0 /\ balance_of(Store, <<T1, 2>>) > 0
    /\ percentage_verify_restriction(Store, T1, 2, 1, EnvCap).code = APP_FUNDS_LIMIT_REACHED
    /\ transfer_check(Store, T1, 1, 2, 1, EnvCap) = "asset is frozen"

\* C29: a token whose divisible flag is true keeps it true in every later
\* state, and make_divisible on a token that is divisible already fails and
\* changes nothing.
C29_DivisibleForever ==
    /\ [][\A t \in DOMAIN Tokens :
             Tokens[t].divisible => t \in DOMAIN Tokens' /\ Tokens'[t].divisible]_vars
    /\ [](\A origin \in {1, 2} :
            token_details(Store, T1).divisible
            => LET r == make_divisible(Store, origin, origin, T1)
               IN  r.res # "Ok" /\ r.st = Store)
    /\ [][last'.op = "make_divisible" /\ token_details(Store, T1).divisible
            => last'.res = "Err" /\ Store' = Store]_vars

\* The token was made divisible and handed over to identity 2, which holds
\* an amount that is no multiple of ONE_UNIT, and its make_divisible has
\* just been refused.
C29_Witness ==
    /\ last = [op |-> "make_divisible", res |-> "Err"]
    /\ token_details(Store, T1).divisible
    /\ token_details(Store, T1).owner_did = 2
    /\ balance_of(Store, <<T1, 2>>) % ONE_UNIT # 0
    /\ make_divisible(Store, 2, 2, T1).res = "token already divisible"

\* C30: a create_checkpoint that succeeds raises the checkpoint counter of
\* the ticker by exactly 1, the first checkpoint getting the id 1, and
\* records the total supply of that moment under the new id; no later call
\* changes a recorded total supply.
C30_CheckpointSupply ==
    /\ [][last'.op = "create_checkpoint" /\ last'.res = "Ok"
            => LET id == total_checkpoints_of(Store, T1) + 1 IN
               /\ Exists(TotalCheckpoints', T1) /\ TotalCheckpoints'[T1] = id
               /\ ~Exists(TotalCheckpoints, T1) => id = 1
               /\ ~Exists(CheckpointTotalSupply, <<T1, id>>)
               /\ Exists(CheckpointTotalSupply', <<T1, id>>)
               /\ CheckpointTotalSupply'[<<T1, id>>] = token_details(Store, T1).total_supply
               /\ Tokens' = Tokens]_vars
    /\ [][\A k \in DOMAIN CheckpointTotalSupply :
             /\ k \in DOMAIN CheckpointTotalSupply'
             /\ CheckpointTotalSupply'[k] = CheckpointTotalSupply[k]]_vars
    /\ [][last'.op # "create_checkpoint" \/ last'.res # "Ok"
            => TotalCheckpoints' = TotalCheckpoints
               /\ CheckpointTotalSupply' = CheckpointTotalSupply]_vars

\* Two checkpoints were made, the supply having risen between them, and a
\* transfer has been made since the second.
C30_Witness ==
    /\ total_checkpoints_of(Store, T1) = 2
    /\ total_supply_at(Store, <<T1, 1>>) < total_supply_at(Store, <<T1, 2>>)
    /\ total_supply_at(Store, <<T1, 2>>) = token_details(Store, T1).total_supply
    /\ Exists(CheckpointBalance, <<T1, 1, 2>>)
    /\ last = [op |-> "transfer", res |-> "Ok"]

\* Whether the sequence of numbers s is strictly increasing.
StrictlyIncreasing(s) == \A i \in 1..(Len(s) - 1) : s[i] < s[i + 1]

\* C31: the list of checkpoint ids of every ticker and identity is strictly
\* increasing, with every entry between 1 and the checkpoint counter of the
\* ticker; a balance is recorded for (ticker, identity, k) exactly when k is
\* in that list; and a balance once recorded is never written again.
C31_CheckpointLists ==
    /\ [](\A t \in {T1, T2}, did \in DidRecords :
            LET list == user_checkpoints(Store, <<t, did>>) IN
            /\ StrictlyIncreasing(list)
            /\ \A i \in 1..Len(list) :
                   1 <= list[i] /\ list[i] <= total_checkpoints_of(Store, t)
            /\ \A k \in 0..(MaxCheckpoints + 1) :
                   Exists(CheckpointBalance, <<t, did, k>>)
                      <=> \E i \in 1..Len(list) : list[i] = k)
    /\ [](\A key \in DOMAIN UserCheckpoints \cup {<<k[1], k[2]>> : k \in DOMAIN CheckpointBalance} :
            key[1] \in {T1, T2} /\ key[2] \in DidRecords)
    /\ [][\A k \in DOMAIN CheckpointBalance :
             /\ k \in DOMAIN CheckpointBalance'
             /\ CheckpointBalance'[k] = CheckpointBalance[k]]_vars

\* Identity 2 changed its balance after both checkpoints and again since,
\* identity 1 only after the second.
C31_Witness ==
    /\ user_checkpoints(Store, <<T1, 2>>) = <<1, 2>>
    /\ user_checkpoints(Store, <<T1, 1>>) = <<2>>
    /\ balance_at_checkpoint(Store, <<T1, 2, 2>>) # balance_at_checkpoint(Store, <<T1, 2, 1>>)
    /\ balance_at_checkpoint(Store, <<T1, 2, 2>>) # balance_of(Store, <<T1, 2>>)
    /\ last = [op |-> "transfer", res |-> "Ok"]

\* issue(investor_dids[i], values[i]) for i, i + 1, ... one after another,
\* as long as each succeeds.
RECURSIVE IssueEach(_, _, _, _, _)
IssueEach(st, t, investor_dids, values, i) ==
    IF i > Len(investor_dids)
    THEN Ok(st)
    ELSE LET r == issue(st, 1, 1, t, investor_dids[i], values[i], EnvOk)
         IN  IF r.res = "Ok" THEN IssueEach(r.st, t, investor_dids, values, i + 1) ELSE r

\* Lists of investors, with an identity named once or more than once.
InvestorLists == {<<2>>, <<2, 3>>, <<3, 2>>, <<2, 2>>}

\* C32: a batch_issue that succeeds leaves every balance and the total
\* supply of the ticker as issue for each investor and value, one after
\* another in the order of the lists, would leave them, also when an
\* identity is named more than once.
C32_BatchAsIssues ==
    \A investor_dids \in InvestorLists, v \in {1, 2} :
       LET values == [i \in 1..Len(investor_dids) |-> IF i = 1 THEN v ELSE 1]
           batch == batch_issue(Store, 1, 1, T1, investor_dids, values, EnvOk)
           each == IssueEach(Store, T1, investor_dids, values, 1)
       IN  batch.res = "Ok"
           => /\ each.res = "Ok"
              /\ batch.st.BalanceOf = each.st.BalanceOf
              /\ token_details(batch.st, T1).total_supply
                   = token_details(each.st, T1).total_supply

\* C33: transfer_from by spender 2 from holder 1 fails and changes nothing
\* unless an allowance is stored for (ticker, 1, 2) that is at least value;
\* a transfer_from that succeeds lowers that allowance by exactly the value
\* it moves; so what the holder approved for the spender less what the
\* spender moved is the allowance, and is never below zero.
C33_AllowanceSpent ==
    /\ [](\A to_did \in {1, 2}, value \in 0..(MaxBalance + 1) :
            LET key == <<T1, 1, 2>>
                r == transfer_from(Store, 2, 2, T1, 1, to_did, value, EnvOk)
            IN  ~(Exists(Allowance, key) /\ Allowance[key] >= value)
                => r.res # "Ok" /\ r.st = Store)
    /\ [][last'.op = "transfer_from" /\ last'.res = "Ok"
            => LET key == <<T1, 1, 2>> IN
               /\ Exists(Allowance, key) /\ Exists(Allowance', key)
               /\ \E value \in 0..Allowance[key] :
                     /\ Allowance'[key] = Allowance[key] - value
                     /\ balance_of(Store', <<T1, 1>>) = balance_of(Store, <<T1, 1>>) - value
                     /\ balance_of(Store', <<T1, 2>>) = balance_of(Store, <<T1, 2>>) + value]_vars
    /\ [][last'.op = "transfer_from" /\ last'.res = "Err" => Store' = Store]_vars
    /\ [](\A key \in DOMAIN hist.unspent \cup DOMAIN Allowance :
            allowance(Store, key) = Get(hist.unspent, key, 0) /\ allowance(Store, key) >= 0)

\* The spender has used up what was approved, both identities hold a
\* balance, and one more transfer_from has just been refused for want of
\* allowance.
C33_Witness ==
    /\ last = [op |-> "transfer_from", res |-> "Err"]
    /\ Exists(Allowance, <<T1, 1, 2>>) /\ Allowance[<<T1, 1, 2>>] = 0
    /\ balance_of(Store, <<T1, 1>>) > 0 /\ balance_of(Store, <<T1, 2>>) > 0
    /\ transfer_from(Store, 2, 2, T1, 1, 2, 1, EnvOk).res = "Not enough allowance"

\* C34: an authorization to transfer a ticker or the ownership of a token is
\* accepted only if the identity that gave it owns the ticker or the token
\* when it is accepted; one given by an identity that is not the owner, or
\* is the owner no longer, is refused as Unauthorized, and the owners, the
\* links and the authorizations stay as they were.
C34_OwnerAuthorizes ==
    /\ [](\A to_did \in {1, 2}, auth_id \in AuthIds :
            Exists(Authorizations, <<to_did, auth_id>>) =>
            LET auth == Authorizations[<<to_did, auth_id>>]
                t == auth.authorization_data.ticker
                ticker_transfer == accept_ticker_transfer(Store, to_did, auth_id)
                token_transfer == accept_token_ownership_transfer(Store, to_did, auth_id)
            IN  /\ ticker_transfer.res = "Ok"
                     => auth.authorized_by = ticker_registration(Store, t).owner
                /\ token_transfer.res = "Ok"
                     => auth.authorized_by = token_details(Store, t).owner_did
                /\ auth.authorization_data.kind = "TransferTicker"
                   /\ ~Exists(Tokens, t)
                   /\ auth.authorized_by # ticker_registration(Store, t).owner
                     => /\ ticker_transfer.res = "AuthorizationError::Unauthorized"
                        /\ ticker_transfer.st = Store
                /\ auth.authorization_data.kind = "TransferTokenOwnership"
                   /\ Exists(Tokens, t)
                   /\ auth.authorized_by # token_details(Store, t).owner_did
                     => /\ token_transfer.res = "AuthorizationError::Unauthorized"
                        /\ token_transfer.st = Store)
    /\ [][last'.op \in {"accept_ticker_transfer", "accept_token_ownership_transfer"}
          /\ last'.res = "Err"
            => /\ Tickers' = Tickers /\ Tokens' = Tokens
               /\ Links' = Links /\ Authorizations' = Authorizations]_vars

\* Identity 2 accepted ticker "A" from identity 1; another authorization for
\* "A" that identity 1 gave before is still there, and accepting it has just
\* been refused.
C34_Witness ==
    /\ last = [op |-> "accept_ticker_transfer", res |-> "Err"]
    /\ ticker_registration(Store, T1).owner = 2
    /\ ~Exists(Tokens, T1)
    /\ \E k \in hist.accepted : k[1] = 2
    /\ \E auth_id \in AuthIds :
          /\ Exists(Authorizations, <<2, auth_id>>)
          /\ Authorizations[<<2, auth_id>>].authorized_by = 1
          /\ Authorizations[<<2, auth_id>>].authorization_data = TransferTicker(T1)
          /\ accept_ticker_transfer(Store, 2, auth_id).res = "AuthorizationError::Unauthorized"

\* C35: after every create_token that succeeds, whether the ticker was not
\* registered, registered with an expiry that had passed, or registered to
\* the creator with an expiry still to come, the registration has no expiry
\* and the creator holds a TickerOwned link and a TokenOwned link for the
\* ticker, both without expiry.
C35_PermanentOwnership ==
    [][last'.op = "create_token" /\ last'.res = "Ok"
        => \A t \in DOMAIN Tokens' \ DOMAIN Tokens :
              LET did == Tokens'[t].owner_did IN
              /\ t \in DOMAIN Tickers' /\ Tickers'[t].expiry = None
              /\ LinksOf(Store', did, TickerOwned(t)) # {}
              /\ LinksOf(Store', did, TokenOwned(t)) # {}
              /\ \A k \in LinksOf(Store', did, TickerOwned(t))
                        \cup LinksOf(Store', did, TokenOwned(t)) :
                     Links'[k].expiry = None]_vars

\* C36: whenever can_transfer(ticker, from, to, value) reports the success
\* status code, for a holder from of the token and another identity to,
\* transfer of value to the same receiver by from, called in the same state
\* and with the same answers of the verifiers, succeeds.
C36_CanTransferThenTransfer ==
    \A from_did \in {1, 2}, value \in 0..(MAX_SUPPLY + 1), env \in {EnvOk, EnvFail} :
       LET to_did == 3 - from_did IN
       /\ Exists(BalanceOf, <<T1, from_did>>)
       /\ can_transfer(Store, T1, from_did, to_did, value, env).code = ERC1400_TRANSFER_SUCCESS
       => transfer(Store, from_did, from_did, T1, to_did, value, env).res = "Ok"

\* C37: increase_custody_allowance(ticker, holder, custodian, value) fails,
\* and leaves CustodianAllowance and TotalCustodyAllowance as they were, if
\* the total custody allowance of the holder plus value is above the
\* holder's balance or if the custodian is not a registered identity; when
\* it succeeds the custodian's allowance and the holder's total both rise by
\* exactly value.  (Identity 4 is not registered.)
C37_IncreaseCustodyAllowance ==
    /\ [](\A custodian_did \in {2, 3, 4}, value \in 0..(MaxBalance + 1) :
            LET r == increase_custody_allowance(Store, 1, T1, 1, custodian_did, value)
                key == <<T1, 1, custodian_did>>
            IN  /\ (\/ total_custody_allowance(Store, <<T1, 1>>) + value
                          > balance_of(Store, <<T1, 1>>)
                    \/ custodian_did \notin DidRecords)
                   => /\ r.res # "Ok"
                      /\ r.st.CustodianAllowance = CustodianAllowance
                      /\ r.st.TotalCustodyAllowance = TotalCustodyAllowance
                /\ r.res = "Ok"
                   => /\ r.st.CustodianAllowance =
                            Insert(CustodianAllowance, key,
                                   custodian_allowance(Store, key) + value)
                      /\ r.st.TotalCustodyAllowance =
                            Insert(TotalCustodyAllowance, <<T1, 1>>,
                                   total_custody_allowance(Store, <<T1, 1>>) + value))
    /\ [][last'.op = "increase_custody_allowance"
            => IF last'.res = "Ok"
               THEN \E value \in 1..MaxBalance :
                       /\ custodian_allowance(Store', <<T1, 1, 2>>)
                            = custodian_allowance(Store, <<T1, 1, 2>>) + value
                       /\ total_custody_allowance(Store', <<T1, 1>>)
                            = total_custody_allowance(Store, <<T1, 1>>) + value
               ELSE /\ CustodianAllowance' = CustodianAllowance
                    /\ TotalCustodyAllowance' = TotalCustodyAllowance]_vars

\* Identity 1 has pledged its whole balance to custodian 2, having
\* transferred part of the supply away, and one more pledge has just been
\* refused.
C37_Witness ==
    /\ last = [op |-> "increase_custody_allowance", res |-> "Err"]
    /\ balance_of(Store, <<T1, 1>>) > 0 /\ balance_of(Store, <<T1, 2>>) > 0
    /\ total_custody_allowance(Store, <<T1, 1>>) = balance_of(Store, <<T1, 1>>)
    /\ custodian_allowance(Store, <<T1, 1, 2>>) = balance_of(Store, <<T1, 1>>)
    /\ increase_custody_allowance(Store, 1, T1, 1, 2, 1).res = "Insufficient balance of holder did"

\* C38: for every ticker that has a token, the owner in the registration of
\* the ticker is the owner_did of the token, and the registration has no
\* expiry.
C38_TokenOwnsTicker ==
    \A t \in DOMAIN Tokens :
       /\ t \in DOMAIN Tickers
       /\ Tickers[t].owner = Tokens[t].owner_did
       /\ Tickers[t].expiry = None

\* Time has passed, and the token of "A" has just been handed over to
\* identity 2, which is the owner in the registration too.
C38_Witness ==
    /\ last = [op |-> "accept_token_ownership_transfer", res |-> "Ok"]
    /\ Exists(Tokens, T1) /\ Tokens[T1].owner_did = 2
    /\ Exists(Tickers, T1) /\ Tickers[T1].owner = 2
    /\ now > 0

\* C39: while a token is indivisible, every balance of it and its total
\* supply are multiples of ONE_UNIT.
C39_WholeUnits ==
    \A t \in DOMAIN Tokens :
       ~Tokens[t].divisible
       => /\ Tokens[t].total_supply % ONE_UNIT = 0
          /\ \A k \in DOMAIN BalanceOf : k[1] = t => BalanceOf[k] % ONE_UNIT = 0

\* The token is indivisible, identity 2 holds one unit of it, and an issue
\* of less than a unit has just been refused.
C39_Witness ==
    /\ last = [op |-> "issue", res |-> "Err"]
    /\ Exists(Tokens, T1) /\ ~Tokens[T1].divisible
    /\ balance_of(Store, <<T1, 2>>) = ONE_UNIT
    /\ issue(Store, 1, 1, T1, 2, 1, EnvOk).res = "Invalid granularity"

\* C40: the percentage verifier answers ERC1400_INVALID_RECEIVER whenever no
\* receiver is given, so no redeem and no redeem_from succeeds in any state,
\* whatever the verifiers' settings, and the total supply of a token is
\* lowered by controller_redeem only.
C40_RedeemNeverSucceeds ==
    /\ [](\A did \in {1, 2}, value \in 0..MAX_SUPPLY, env \in VerifierAnswers :
            /\ percentage_verify_restriction(Store, T1, None, value, env).code
                  = ERC1400_INVALID_RECEIVER
            /\ redeem(Store, did, did, T1, value, env).res # "Ok"
            /\ \A from_did \in {1, 2} :
                  redeem_from(Store, did, did, T1, from_did, value, env).res # "Ok")
    /\ [][last'.op \in {"redeem", "redeem_from"}
            => last'.res = "Err" /\ Store' = Store]_vars
    /\ [][\A t \in DOMAIN Tokens :
            token_details(Store', t).total_supply < Tokens[t].total_supply
            => last' = [op |-> "controller_redeem", res |-> "Ok"]]_vars

\* The controller has burnt the supply to below one unit, identity 2 holds
\* what is left and an allowance from identity 1, and its redeem has just
\* been refused by the verifiers alone, as its redeem_from would be.
C40_Witness ==
    /\ last = [op |-> "redeem", res |-> "Err"]
    /\ Exists(Tokens, T1) /\ Tokens[T1].total_supply = 1
    /\ balance_of(Store, <<T1, 2>>) = 1
    /\ redeem(Store, 2, 2, T1, 1, EnvOk).res = "Transfer restrictions failed"
    /\ redeem_from(Store, 2, 2, T1, 1, 1, EnvOk).res = "Transfer restrictions failed"

====
